---- MODULE Spec2Model ----
(***************************************************************************)
(* A model of the EEG analysis toolkit: the filter-parameter validator     *)
(* (utils/filter_validation.py), the preprocessor (preprocessor/           *)
(* preprocessor.py) and the analyzer with its rule engine (analyzer/       *)
(* analyzer.py).                                                           *)
(*                                                                         *)
(* Numbers.  The code computes in float64; the model computes exactly, in  *)
(* fixed point.  A frequency is an integer count of 1/8000 Hz, so that     *)
(* every product and quotient of the validator (x * 0.95, x * 0.001,       *)
(* (a + b) / 2, ...) is an exact integer for sampling rates that are whole *)
(* hertz and frequencies that are whole millihertz.  Rounding error of the *)
(* floating-point computation is outside the model.                        *)
(***************************************************************************)
EXTENDS Integers, Sequences, FiniteSets, TLC

VARIABLES
    v_args,     \* validate_bandpass_params: the caller's arguments
    v_first,    \* its return value, NoCall before the call
    v_second,   \* the return value of a second call on the first one's output
    v_swapped,  \* what the call with the two frequencies exchanged returned
    f_data,     \* EEGPreprocessor filters: the caller's channels x samples array
    f_args,     \* sampling rate and frequencies passed by the caller
    f_fail,     \* per stage, the channels on which scipy's filtfilt raises
    f_ret,      \* what the call returned or raised, NoCall before the call
    a_data,     \* remove_artifacts: the caller's array of samples
    a_threshold, \* its threshold
    a_ret,      \* what the call returned or raised
    s_args,     \* calculate_spectral_power: sampling rate, length, spectrum
    s_ret,      \* the dictionary it returned
    r_args,     \* the rule engine: the call and its arguments
    r_ret,      \* what the call returned or raised
    c_args,     \* calculate_coherence: the data's shape and the two channels
    c_ret,      \* what the call returned or raised
    d_args,     \* detect_spikes: the signal, the sampling rate and the threshold
    d_ret,      \* the dictionary it returned, or the error it raised
    k_cfg,      \* RealtimeEEGController: the driver and batch_size it was built with
    k_running,  \* the _running event
    k_timer,    \* whether the queue timer is active
    k_thread,   \* the producer thread: none, alive or dead
    k_pc,       \* the statement the producer thread is at
    k_batch,    \* the producer batch list
    k_queue,    \* the batch queue, oldest first
    k_driver,   \* the driver: new, open or closed
    k_main,     \* what the main thread is in: idle, joining or processing
    k_processed, \* processed_batches of the running _process_queue()
    k_status,   \* the status_changed signals emitted
    k_errors,   \* the number of error_occurred signals emitted
    k_delivered, \* the batches emitted by data_received, in order
    k_dropped,  \* the batches the producer took off the full queue
    k_yielded,  \* the number of samples the driver has yielded
    k_stats,    \* samples_received and batches_processed
    k_closes,   \* the number of driver.close() calls made
    k_calls,    \* the numbers of start() and stop() calls made
    p_raw_data, \* the application: raw_data, NoneValue before a load
    p_processed_data, \* processed_data, NoneValue when there is none
    p_current_analysis, \* current_analysis, NoneValue when there is none
    p_buttons,  \* the enabled flags and texts of the buttons
    p_process_thread, \* the ProcessingThread of the last process_data()
    p_signals,  \* its signals not yet delivered to the slots
    p_analysis_thread, \* the AnalysisThread of the last analyze_rhythms()
    p_analysis_signals, \* its signals not yet delivered to the slots
    p_dialogs,  \* the message boxes shown
    p_runs,     \* the numbers of loads, processing runs and analysis runs
    t_args,     \* a ProcessingThread: data, sampling_rate, processing_params, failures
    t_ret,      \* the signals its run() emitted, NoCall before the run
    b_cfg,      \* a RealtimeDataBuffer: max_duration, normalize_arduino_data
    b_buffer,   \* its timestamps, data, global_min and global_max
    b_ret,      \* the last call on it and what it returned
    b_calls,    \* the numbers of calls made
    m_args,     \* the medical alerts: the analysis dict of the call
    m_ret,      \* the text returned, NoCall before the call
    n_args,     \* validate_notch_params: the arguments of the call
    n_first,    \* its return value, NoCall before the call
    n_second    \* the return value of a second call on the first one's output

vars ==
    <<v_args, v_first, v_second, v_swapped, f_data, f_args, f_fail,
      f_ret, a_data, a_threshold, a_ret, s_args, s_ret, r_args, r_ret,
      c_args, c_ret, d_args, d_ret, k_cfg, k_running, k_timer, k_thread,
      k_pc, k_batch, k_queue, k_driver, k_main, k_processed, k_status,
      k_errors, k_delivered, k_dropped, k_yielded, k_stats, k_closes,
      k_calls, p_raw_data, p_processed_data, p_current_analysis,
      p_buttons, p_process_thread, p_signals, p_analysis_thread,
      p_analysis_signals, p_dialogs, p_runs, t_args, t_ret, b_cfg,
      b_buffer, b_ret, b_calls, m_args, m_ret, n_args, n_first,
      n_second>>

validatorVars == <<v_args, v_first, v_second, v_swapped>>
filterVars == <<f_data, f_args, f_fail, f_ret>>
artifactVars == <<a_data, a_threshold, a_ret>>
spectralVars == <<s_args, s_ret>>
ruleVars == <<r_args, r_ret>>
coherenceVars == <<c_args, c_ret>>
spikeVars == <<d_args, d_ret>>
realtimeVars == <<k_cfg, k_running, k_timer, k_thread, k_pc, k_batch, k_queue, k_driver, k_main, k_processed, k_status, k_errors, k_delivered, k_dropped, k_yielded, k_stats, k_closes, k_calls>>
applicationVars == <<p_raw_data, p_processed_data, p_current_analysis, p_buttons, p_process_thread, p_signals, p_analysis_thread, p_analysis_signals, p_dialogs, p_runs>>
workerVars == <<t_args, t_ret>>
bufferVars == <<b_cfg, b_buffer, b_ret, b_calls>>
alertVars == <<m_args, m_ret>>
notchVars == <<n_args, n_first, n_second>>

\* What the operations of one component leave alone: the other components.
ValidatorFrame ==
    UNCHANGED <<filterVars, artifactVars, spectralVars, ruleVars,
                coherenceVars, spikeVars, realtimeVars, applicationVars,
                workerVars, bufferVars, alertVars, notchVars>>
FiltersFrame ==
    UNCHANGED <<validatorVars, artifactVars, spectralVars, ruleVars,
                coherenceVars, spikeVars, realtimeVars, applicationVars,
                workerVars, bufferVars, alertVars, notchVars>>
ArtifactsFrame ==
    UNCHANGED <<validatorVars, filterVars, spectralVars, ruleVars,
                coherenceVars, spikeVars, realtimeVars, applicationVars,
                workerVars, bufferVars, alertVars, notchVars>>
SpectralFrame ==
    UNCHANGED <<validatorVars, filterVars, artifactVars, ruleVars,
                coherenceVars, spikeVars, realtimeVars, applicationVars,
                workerVars, bufferVars, alertVars, notchVars>>
RulesFrame ==
    UNCHANGED <<validatorVars, filterVars, artifactVars, spectralVars,
                coherenceVars, spikeVars, realtimeVars, applicationVars,
                workerVars, bufferVars, alertVars, notchVars>>
CoherenceFrame ==
    UNCHANGED <<validatorVars, filterVars, artifactVars, spectralVars,
                ruleVars, spikeVars, realtimeVars, applicationVars,
                workerVars, bufferVars, alertVars, notchVars>>
SpikesFrame ==
    UNCHANGED <<validatorVars, filterVars, artifactVars, spectralVars,
                ruleVars, coherenceVars, realtimeVars, applicationVars,
                workerVars, bufferVars, alertVars, notchVars>>
RealtimeFrame ==
    UNCHANGED <<validatorVars, filterVars, artifactVars, spectralVars,
                ruleVars, coherenceVars, spikeVars, applicationVars,
                workerVars, bufferVars, alertVars, notchVars>>
AppFrame ==
    UNCHANGED <<validatorVars, filterVars, artifactVars, spectralVars,
                ruleVars, coherenceVars, spikeVars, realtimeVars,
                workerVars, bufferVars, alertVars, notchVars>>
WorkerFrame ==
    UNCHANGED <<validatorVars, filterVars, artifactVars, spectralVars,
                ruleVars, coherenceVars, spikeVars, realtimeVars,
                applicationVars, bufferVars, alertVars, notchVars>>
BufferFrame ==
    UNCHANGED <<validatorVars, filterVars, artifactVars, spectralVars,
                ruleVars, coherenceVars, spikeVars, realtimeVars,
                applicationVars, workerVars, alertVars, notchVars>>
AlertsFrame ==
    UNCHANGED <<validatorVars, filterVars, artifactVars, spectralVars,
                ruleVars, coherenceVars, spikeVars, realtimeVars,
                applicationVars, workerVars, bufferVars, notchVars>>
NotchFrame ==
    UNCHANGED <<validatorVars, filterVars, artifactVars, spectralVars,
                ruleVars, coherenceVars, spikeVars, realtimeVars,
                applicationVars, workerVars, bufferVars, alertVars>>

\* The value of a result variable before the call that sets it.
NoCall == [kind |-> "nocall"]

Max(a, b) == IF a >= b THEN a ELSE b
Min(a, b) == IF a <= b THEN a ELSE b

---------------------------------------------------------------------------
(* Fixed point: x millihertz as a count of 1/8000 Hz.                      *)
mHz(x) == 8 * x

\* x * 0.95, x * 0.999, x * 0.001 and x * 0.8 for x a multiple of 1000 units.
Times095(x) == (x \div 20) * 19
Times0999(x) == (x \div 1000) * 999
Times0001(x) == x \div 1000
Times08(x) == (x \div 5) * 4

\* The quotient f / nyquist is a rounded double.  For f = nyquist * 0.999 it
\* comes out above the double 0.999 at these Nyquist frequencies of the
\* model's sampling rates (50 and 100 Hz), and equal to it at the others
\* (1 and 250 Hz); f = nyquist * 0.001 divides back to 0.001 at all four.
RoundsAbove0999 == {mHz(25000), mHz(50000)}

\* f / nyquist > 0.999
NormAbove0999(f, nyquist) ==
    \/ f * 1000 > 999 * nyquist
    \/ f * 1000 = 999 * nyquist /\ nyquist \in RoundsAbove0999

\* f / nyquist < 0.001
NormBelow0001(f, nyquist) == f * 1000 < nyquist

---------------------------------------------------------------------------
(* FilterValidator.validate_bandpass_params                                *)

\* The eight warnings of the function, by the correction that appends them.
W_LowNonPositive == "low <= 0, set to 0.1"
W_HighNonPositive == "high <= 0, set to 40.0"
W_Swapped == "swapped"
W_InvalidRange == "invalid range, defaults 1.0-40.0"
W_AboveNyquist == "high >= nyquist, set to 0.95 nyquist"
W_TooNarrow == "narrower than 0.5, widened"
W_LowNormSmall == "low / nyquist < 0.001"
W_HighNormLarge == "high / nyquist > 0.999"

min_separation == mHz(500)

\* if low_freq <= 0: low_freq = 0.1
BandpassLowPositive(s) ==
    IF s.low <= 0
    THEN [s EXCEPT !.low = mHz(100), !.warnings = Append(@, W_LowNonPositive)]
    ELSE s

\* if high_freq <= 0: high_freq = 40.0
BandpassHighPositive(s) ==
    IF s.high <= 0
    THEN [s EXCEPT !.high = mHz(40000), !.warnings = Append(@, W_HighNonPositive)]
    ELSE s

\* An ordering step that resets reversed frequencies to the defaults too.
BandpassOrderDefaultsOnly(s, orig_low, orig_high) ==
    IF s.low >= s.high
    THEN [low |-> mHz(1000), high |-> mHz(40000),
          warnings |-> Append(s.warnings, W_InvalidRange)]
    ELSE s

\* A Nyquist clamp that does not report itself.
BandpassBelowNyquistSilent(s, nyquist) ==
    IF s.high >= nyquist THEN [s EXCEPT !.high = Times095(nyquist)] ELSE s

\* if low_freq >= high_freq: swap if orig_low > orig_high, else 1.0 and 40.0
BandpassOrder(s, orig_low, orig_high) ==
    IF s.low >= s.high
    THEN IF orig_low > orig_high
         THEN [low |-> s.high, high |-> s.low,
               warnings |-> Append(s.warnings, W_Swapped)]
         ELSE [low |-> mHz(1000), high |-> mHz(40000),
               warnings |-> Append(s.warnings, W_InvalidRange)]
    ELSE s

\* if high_freq >= nyquist: high_freq = nyquist * 0.95
BandpassBelowNyquist(s, nyquist) ==
    IF s.high >= nyquist
    THEN [s EXCEPT !.high = Times095(nyquist),
                   !.warnings = Append(@, W_AboveNyquist)]
    ELSE s

\* if (high_freq - low_freq) < min_separation: widen about the center
BandpassSeparation(s, nyquist) ==
    IF (s.high - s.low) < min_separation
    THEN LET center == (s.low + s.high) \div 2
         IN  [low |-> Max(mHz(100), center - min_separation \div 2),
              high |-> Min(Times095(nyquist), center + min_separation \div 2),
              warnings |-> Append(s.warnings, W_TooNarrow)]
    ELSE s

\* low_norm = low_freq / nyquist and high_norm = high_freq / nyquist are both
\* taken first; then if low_norm < 0.001: low_freq = nyquist * 0.001 and
\* if high_norm > 0.999: high_freq = nyquist * 0.999
BandpassNormalized(s, nyquist) ==
    [low |-> IF NormBelow0001(s.low, nyquist) THEN Times0001(nyquist) ELSE s.low,
     high |-> IF NormAbove0999(s.high, nyquist) THEN Times0999(nyquist) ELSE s.high,
     warnings |-> s.warnings
         \o (IF NormBelow0001(s.low, nyquist) THEN <<W_LowNormSmall>> ELSE <<>>)
         \o (IF NormAbove0999(s.high, nyquist) THEN <<W_HighNormLarge>> ELSE <<>>)]

\* The corrections in the order of the code, from warnings = [].
BandpassCorrections(low_freq, high_freq, nyquist) ==
    BandpassNormalized(
        BandpassSeparation(
            BandpassBelowNyquist(
                BandpassOrder(
                    BandpassHighPositive(
                        BandpassLowPositive(
                            [low |-> low_freq, high |-> high_freq,
                             warnings |-> <<>>])),
                    low_freq, high_freq),
                nyquist),
            nyquist),
        nyquist)

validate_bandpass_params(low_freq, high_freq, sampling_rate) ==
    [kind |-> "return"]
        @@ BandpassCorrections(low_freq, high_freq, sampling_rate \div 2)

\* The frequencies (millihertz) and sampling rates (hertz) the calls are
\* drawn from: negative, zero, tiny, close, 0.999 of, at and above Nyquist.
FreqChoices ==
    {-1000, 0, 50, 300, 1000, 4000, 24975, 30000, 40000, 49960, 60000, 100000,
     200000}
RateChoices == {1, 50, 100, 250}

IdleValidator ==
    /\ v_args = NoCall
    /\ v_first = NoCall
    /\ v_second = NoCall
    /\ v_swapped = NoCall

InitValidator ==
    /\ v_args \in [low_freq : {mHz(f) : f \in FreqChoices},
                   high_freq : {mHz(f) : f \in FreqChoices},
                   sampling_rate : {mHz(1000 * r) : r \in RateChoices}]
    /\ v_first = NoCall
    /\ v_second = NoCall
    /\ v_swapped = NoCall

\* low, high, warnings = validate_bandpass_params(low_freq, high_freq, sampling_rate)
ValidateBandpass ==
    /\ v_first = NoCall
    /\ v_first' = validate_bandpass_params(v_args.low_freq, v_args.high_freq,
                                           v_args.sampling_rate)
    /\ UNCHANGED <<v_args, v_second, v_swapped>>
    /\ ValidatorFrame

\* The same call on the pair the first call returned.
ValidateBandpassAgain ==
    /\ v_first # NoCall
    /\ v_second = NoCall
    /\ v_second' = validate_bandpass_params(v_first.low, v_first.high,
                                            v_args.sampling_rate)
    /\ UNCHANGED <<v_args, v_first, v_swapped>>
    /\ ValidatorFrame

\* The call with the two frequencies exchanged.
ValidateBandpassSwapped ==
    /\ v_args # NoCall
    /\ v_swapped = NoCall
    /\ v_swapped' = validate_bandpass_params(v_args.high_freq, v_args.low_freq,
                                             v_args.sampling_rate)
    /\ UNCHANGED <<v_args, v_first, v_second>>
    /\ ValidatorFrame

NextValidator ==
    \/ ValidateBandpass
    \/ ValidateBandpassAgain
    \/ ValidateBandpassSwapped

---------------------------------------------------------------------------
(* FilterValidator.validate_notch_params                                   *)

W_NotchNonPositive == "notch <= 0, set to 50.0"
W_NotchAboveNyquist == "notch >= nyquist, set to 0.8 nyquist"
W_NotchNormSmall == "notch / nyquist < 0.001"
W_NotchNormLarge == "notch / nyquist > 0.999"

\* if notch_freq <= 0: notch_freq = 50.0
NotchPositive(s) ==
    IF s.notch <= 0
    THEN [notch |-> mHz(50000),
          warnings |-> Append(s.warnings, W_NotchNonPositive)]
    ELSE s

\* if notch_freq >= nyquist: notch_freq = nyquist * 0.8
NotchBelowNyquist(s, nyquist) ==
    IF s.notch >= nyquist
    THEN [notch |-> Times08(nyquist),
          warnings |-> Append(s.warnings, W_NotchAboveNyquist)]
    ELSE s

\* freq_norm = notch_freq / nyquist is taken once; then
\* if freq_norm < 0.001: nyquist * 0.001; if freq_norm > 0.999: nyquist * 0.999
NotchNormalized(s, nyquist) ==
    [notch |-> IF NormAbove0999(s.notch, nyquist) THEN Times0999(nyquist)
               ELSE IF NormBelow0001(s.notch, nyquist) THEN Times0001(nyquist)
               ELSE s.notch,
     warnings |-> s.warnings
         \o (IF NormBelow0001(s.notch, nyquist) THEN <<W_NotchNormSmall>> ELSE <<>>)
         \o (IF NormAbove0999(s.notch, nyquist) THEN <<W_NotchNormLarge>> ELSE <<>>)]

validate_notch_params(notch_freq, sampling_rate) ==
    [kind |-> "return"]
        @@ NotchNormalized(
               NotchBelowNyquist(
                   NotchPositive([notch |-> notch_freq, warnings |-> <<>>]),
                   sampling_rate \div 2),
               sampling_rate \div 2)

---------------------------------------------------------------------------
(* EEGPreprocessor: bandpass_filter, notch_filter, apply_filters           *)
(*                                                                         *)
(* A channel is [id, stages]: which row of the caller's array it came from *)
(* (0 for a row of np.zeros_like) and the filters applied to it, in order. *)
(* A filter is <<name, f1, f2>>: the design frequencies after the clamps   *)
(* of the function, in fixed point.  scipy's filtfilt is the environment:  *)
(* the set `fails` holds the 0-based channels on which it raises.          *)

ZeroRow == [id |-> 0, stages |-> <<>>]
zeros_like(data) == [i \in 1..Len(data) |-> ZeroRow]
filtfilt(coeffs, row) == [row EXCEPT !.stages = Append(@, coeffs)]

\* What a call of the preprocessor does: the value it returns or the
\* ValueError it raises (error: which raise statement; channel: the index in
\* the message, -1 where the message names none), and the caller's array
\* as the call leaves it.
Returned(value, data) ==
    [kind |-> "return", error |-> "", channel |-> -1, value |-> value,
     data |-> data]
Raised(error, channel, data) ==
    [kind |-> "ValueError", error |-> error, channel |-> channel,
     value |-> <<>>, data |-> data]

\* The loop with the failure of a channel swallowed: the channel is left as
\* np.zeros_like made it and the loop goes on.
RECURSIVE FilterLoopSkippingFailures(_, _, _, _, _)
FilterLoopSkippingFailures(coeffs, data, fails, i, filtered_data) ==
    IF i >= Len(data)
    THEN Returned(filtered_data, data)
    ELSE FilterLoopSkippingFailures(coeffs, data, fails, i + 1,
             IF i \in fails THEN filtered_data
             ELSE [filtered_data EXCEPT ![i + 1] = filtfilt(coeffs, data[i + 1])])

\* for i in range(data.shape[0]): try: filtered_data[i] = filtfilt(b, a, data[i])
\*                                 except: raise ValueError(... channel i ...)
RECURSIVE FilterLoop(_, _, _, _, _)
FilterLoop(coeffs, data, fails, i, filtered_data) ==
    IF i >= Len(data)
    THEN Returned(filtered_data, data)
    ELSE IF i \in fails
         THEN Raised("apply", i, data)
         ELSE FilterLoop(coeffs, data, fails, i + 1,
                         [filtered_data EXCEPT ![i + 1] = filtfilt(coeffs, data[i + 1])])

\* scipy.signal.butter(4, [low, high], btype='band') designs a filter iff
\* 0 < low < high < 1 in units of the Nyquist frequency.
ButterDesigns(low, high, nyquist) == 0 < low /\ low < high /\ high < nyquist

bandpass_filter(data, sampling_rate, low_freq, high_freq, fails) ==
    LET nyquist == sampling_rate \div 2
        \* low = low_freq / nyquist; if low < 0.001: low = 0.001 (and high)
        low == IF low_freq * 1000 < nyquist THEN Times0001(nyquist) ELSE low_freq
        high == IF high_freq * 1000 > 999 * nyquist THEN Times0999(nyquist) ELSE high_freq
    IN  IF low_freq <= 0 THEN Raised("low_freq <= 0", -1, data)
        ELSE IF high_freq >= nyquist THEN Raised("high_freq >= nyquist", -1, data)
        ELSE IF low_freq >= high_freq THEN Raised("low_freq >= high_freq", -1, data)
        ELSE IF ~ButterDesigns(low, high, nyquist) THEN Raised("design", -1, data)
        ELSE FilterLoop(<<"bandpass", low, high>>, data, fails, 0, zeros_like(data))

\* scipy.signal.iirnotch(freq, quality) designs a filter iff 0 < freq < 1.
notch_filter(data, sampling_rate, notch_freq, fails) ==
    LET nyquist == sampling_rate \div 2
        freq == IF notch_freq * 1000 < nyquist THEN Times0001(nyquist)
                ELSE IF notch_freq * 1000 > 999 * nyquist THEN Times0999(nyquist)
                ELSE notch_freq
    IN  IF notch_freq <= 0 THEN Raised("notch_freq <= 0", -1, data)
        ELSE IF notch_freq >= nyquist THEN Raised("notch_freq >= nyquist", -1, data)
        ELSE FilterLoop(<<"notch", freq, freq>>, data, fails, 0, zeros_like(data))

\* data = self.bandpass_filter(...) rebinds the local name: the caller's
\* array is the one bandpass_filter was given.  Then
\* if corrected_notch > 0: data = self.notch_filter(data, sampling_rate, corrected_notch)
NotchStage(bandpassed, sampling_rate, corrected_notch, fails) ==
    IF bandpassed.kind # "return"
    THEN bandpassed
    ELSE IF corrected_notch > 0
         THEN [notch_filter(bandpassed.value, sampling_rate, corrected_notch, fails)
                   EXCEPT !.data = bandpassed.data]
         ELSE bandpassed

FilterStages(data, sampling_rate, bp, corrected_notch, fail) ==
    NotchStage(bandpass_filter(data, sampling_rate, bp.low, bp.high, fail.bandpass),
               sampling_rate, corrected_notch, fail.notch)

apply_filters(data, sampling_rate, low_freq, high_freq, notch_freq, fail) ==
    FilterStages(data, sampling_rate,
                 validate_bandpass_params(low_freq, high_freq, sampling_rate),
                 validate_notch_params(notch_freq, sampling_rate).notch,
                 fail)

MaxChannels == 2

\* The caller's array: rows 1..n, nothing applied yet.
RawData(n) == [i \in 1..n |-> [id |-> i, stages |-> <<>>]]

FilterLowChoices == {0, 1000, 30000, 100000}
FilterHighChoices == {300, 40000, 100000}
FilterRateChoices == {50, 250}
NotchChoices == {-1000, 0, 10, 50000, 60000, 200000}

IdleFilters ==
    /\ f_data = NoCall
    /\ f_args = NoCall
    /\ f_fail = NoCall
    /\ f_ret = NoCall

InitFilters ==
    /\ f_data \in {RawData(n) : n \in 1..MaxChannels}
    /\ f_args \in [sampling_rate : {mHz(1000 * r) : r \in FilterRateChoices},
                   low_freq : {mHz(f) : f \in FilterLowChoices},
                   high_freq : {mHz(f) : f \in FilterHighChoices},
                   notch_freq : {mHz(f) : f \in NotchChoices}]
    /\ f_fail \in [bandpass : SUBSET (0..(MaxChannels - 1)),
                   notch : SUBSET (0..(MaxChannels - 1))]
    /\ \A i \in f_fail.bandpass \cup f_fail.notch : i < Len(f_data)
    /\ f_ret = NoCall

\* preprocessor.apply_filters(data, sampling_rate, low_freq, high_freq, notch_freq)
ApplyFilters ==
    /\ f_ret = NoCall
    /\ LET r == apply_filters(f_data, f_args.sampling_rate, f_args.low_freq,
                              f_args.high_freq, f_args.notch_freq, f_fail)
       IN  /\ f_ret' = [call |-> "apply_filters", kind |-> r.kind,
                        error |-> r.error, channel |-> r.channel,
                        value |-> r.value]
           /\ f_data' = r.data
    /\ UNCHANGED <<f_args, f_fail>>
    /\ FiltersFrame

\* preprocessor.bandpass_filter(data, sampling_rate, low_freq, high_freq)
BandpassFilter ==
    /\ f_ret = NoCall
    /\ LET r == bandpass_filter(f_data, f_args.sampling_rate, f_args.low_freq,
                                f_args.high_freq, f_fail.bandpass)
       IN  /\ f_ret' = [call |-> "bandpass_filter", kind |-> r.kind,
                        error |-> r.error, channel |-> r.channel,
                        value |-> r.value]
           /\ f_data' = r.data
    /\ UNCHANGED <<f_args, f_fail>>
    /\ FiltersFrame

\* preprocessor.notch_filter(data, sampling_rate, notch_freq)
NotchFilter ==
    /\ f_ret = NoCall
    /\ LET r == notch_filter(f_data, f_args.sampling_rate, f_args.notch_freq,
                             f_fail.notch)
       IN  /\ f_ret' = [call |-> "notch_filter", kind |-> r.kind,
                        error |-> r.error, channel |-> r.channel,
                        value |-> r.value]
           /\ f_data' = r.data
    /\ UNCHANGED <<f_args, f_fail>>
    /\ FiltersFrame

NextFilters == ApplyFilters \/ BandpassFilter \/ NotchFilter

---------------------------------------------------------------------------
(* EEGPreprocessor.remove_artifacts                                        *)
(*                                                                         *)
(* A channel is a sequence of integer samples and the threshold a fraction *)
(* <<p, q>> = p / q >= 0.  With S the sum and Q the sum of squares of the  *)
(* n samples, mean = S / n and std^2 = (n Q - S^2) / n^2 (np.std is the    *)
(* population deviation), so |x - mean| > threshold * std is, exactly,     *)
(* q^2 (n x - S)^2 > p^2 (n Q - S^2).                                      *)

RECURSIVE SumSeq(_)
SumSeq(s) == IF s = <<>> THEN 0 ELSE Head(s) + SumSeq(Tail(s))

SumSquares(s) == SumSeq([i \in 1..Len(s) |-> s[i] * s[i]])

\* outliers = np.abs(channel_data - mean) > threshold * std, as the set of
\* 1-based positions that are True
Outliers(channel_data, threshold) ==
    {i \in 1..Len(channel_data) :
        threshold[2] * threshold[2]
            * (Len(channel_data) * channel_data[i] - SumSeq(channel_data))
            * (Len(channel_data) * channel_data[i] - SumSeq(channel_data))
        > threshold[1] * threshold[1]
            * (Len(channel_data) * SumSquares(channel_data)
               - SumSeq(channel_data) * SumSeq(channel_data))}

SetMax(S) == CHOOSE x \in S : \A y \in S : y <= x
SetMin(S) == CHOOSE x \in S : \A y \in S : x <= y

\* Interpolation that holds the last kept sample instead of following the
\* line to the next one.
interpHoldingLast(x, kept, channel_data) ==
    IF x <= SetMin(kept) THEN channel_data[SetMin(kept)]
    ELSE channel_data[SetMax({k \in kept : k <= x})]

\* np.interp(x, xp, fp) at one x, for xp the increasing positions `kept` and
\* fp the samples there: fp[0] left of xp[0], fp[-1] right of xp[-1], and
\* between xp[j] <= x < xp[j+1] the line through the two points.
interp(x, kept, channel_data) ==
    IF x <= SetMin(kept) THEN channel_data[SetMin(kept)]
    ELSE IF x >= SetMax(kept) THEN channel_data[SetMax(kept)]
    ELSE LET j == SetMax({k \in kept : k <= x})
             j1 == SetMin({k \in kept : k > x})
         IN  channel_data[j]
             + ((channel_data[j1] - channel_data[j]) * (x - j)) \div (j1 - j)

\* np.interp raises ValueError when every sample of the channel is an
\* outlier: indices[~outliers] is empty.
NoSamplePoint(channel_data, threshold) ==
    /\ Outliers(channel_data, threshold) # {}
    /\ Outliers(channel_data, threshold) = 1..Len(channel_data)

\* One pass of the loop body: the row cleaned_data[i] holds after it.
CleanChannel(channel_data, threshold) ==
    IF Outliers(channel_data, threshold) = {}
    THEN channel_data
    ELSE [x \in 1..Len(channel_data) |->
             interp(x, (1..Len(channel_data)) \ Outliers(channel_data, threshold),
                    channel_data)]

\* cleaned_data = data.copy(); for i in range(data.shape[0]): ...; the call
\* raises at the first channel whose interpolation raises.
remove_artifacts(data, threshold) ==
    IF \E i \in 1..Len(data) : NoSamplePoint(data[i], threshold)
    THEN Raised("interp", -1, data)
    ELSE Returned([i \in 1..Len(data) |-> CleanChannel(data[i], threshold)], data)

MaxLen == 5
MaxPairLen == 3

\* Samples are multiples of 60, so that every interpolated value over a gap
\* of up to 6 positions is an integer.
SampleChoices == {0, 60, 600}
ThresholdChoices == {<<1, 2>>, <<1, 1>>, <<3, 2>>}

ChannelsOfLen(n) == [1..n -> SampleChoices]

IdleArtifacts ==
    /\ a_data = NoCall
    /\ a_threshold = NoCall
    /\ a_ret = NoCall

InitArtifacts ==
    /\ a_data \in
          UNION {{<<c>> : c \in ChannelsOfLen(n)} : n \in 1..MaxLen}
          \cup UNION {{<<c1, c2>> : c1 \in ChannelsOfLen(n), c2 \in ChannelsOfLen(n)} :
                      n \in 1..MaxPairLen}
    /\ a_threshold \in ThresholdChoices
    /\ a_ret = NoCall

\* preprocessor.remove_artifacts(data, threshold)
RemoveArtifacts ==
    /\ a_ret = NoCall
    /\ LET r == remove_artifacts(a_data, a_threshold)
       IN  /\ a_ret' = [kind |-> r.kind, value |-> r.value]
           /\ a_data' = r.data
    /\ UNCHANGED a_threshold
    /\ ArtifactsFrame

NextArtifacts == RemoveArtifacts

---------------------------------------------------------------------------
(* EEGAnalyzer.calculate_spectral_power                                    *)
(*                                                                         *)
(* scipy's fft is the environment: the call is drawn with the retained     *)
(* spectrum itself, power_spectrum[k] = |fft_result[k]|^2 / n for the bins *)
(* k = 1 .. (n - 1) div 2 that fftfreq reports as positive, bin k lying at *)
(* k * sampling_rate / n hertz.  Band edges are kept in half hertz, so     *)
(* "frequency >= low" is 2 * k * sampling_rate >= low * n, exactly.        *)

BandNames == {"delta", "theta", "alpha", "beta", "gamma"}

\* self.rhythm_bands, in half hertz: 0.5-4, 4-8, 8-13, 13-30, 30-100 Hz
rhythm_bands ==
    [delta |-> <<1, 8>>, theta |-> <<8, 16>>, alpha |-> <<16, 26>>,
     beta |-> <<26, 60>>, gamma |-> <<60, 200>>]

\* positive_freq_idx = frequencies > 0: the number of retained bins
PositiveBins(n) == (n - 1) \div 2

\* The mask with the upper edge left to the next band: low <= f < high.
band_mask_half_open(k, low, high, sampling_rate, n) ==
    /\ 2 * k * sampling_rate >= low * n
    /\ 2 * k * sampling_rate < high * n

\* band_mask = (frequencies >= low) & (frequencies <= high), at bin k
band_mask(k, low, high, sampling_rate, n) ==
    /\ 2 * k * sampling_rate >= low * n
    /\ 2 * k * sampling_rate <= high * n

\* rhythm_power[rhythm] = np.sum(power_spectrum[band_mask])
BandPower(power_spectrum, rhythm, sampling_rate, n) ==
    SumSeq([k \in 1..Len(power_spectrum) |->
               IF band_mask(k, rhythm_bands[rhythm][1], rhythm_bands[rhythm][2],
                            sampling_rate, n)
               THEN power_spectrum[k] ELSE 0])

\* relative_power = {rhythm: power / total_power}: the quotient is kept as
\* the fraction num / den; den = 0 is the division numpy leaves as nan or inf
RelativePower(rhythm_power, total_power) ==
    [rhythm \in BandNames |-> [num |-> rhythm_power[rhythm], den |-> total_power]]

SpectralResult(rhythm_power, total_power) ==
    [rhythm_power |-> rhythm_power,
     total_power |-> total_power,
     relative_power |-> RelativePower(rhythm_power, total_power)]

calculate_spectral_power(power_spectrum, sampling_rate, n) ==
    SpectralResult(
        [rhythm \in BandNames |-> BandPower(power_spectrum, rhythm, sampling_rate, n)],
        SumSeq(power_spectrum))

MaxTones == 2

\* (sampling rate in Hz, number of samples): bins every 5 Hz up to 120 Hz,
\* every 1 Hz up to 15 Hz, every 0.25 Hz up to 3.75 Hz.
SpectralConfigs == {<<250, 50>>, <<32, 32>>, <<8, 32>>}
PowerChoices == {1, 2}

\* A spectrum that is zero except at up to MaxTones bins (bin 0: no tone).
ToneSpectrum(tones, bins) ==
    [k \in 1..bins |->
        SumSeq([t \in 1..Len(tones) |-> IF tones[t][1] = k THEN tones[t][2] ELSE 0])]

TonesOf(cfg) == [1..MaxTones -> (0..PositiveBins(cfg[2])) \X PowerChoices]

SpectrumOf(cfg, tones) ==
    [sampling_rate |-> cfg[1], n |-> cfg[2],
     power_spectrum |-> ToneSpectrum(tones, PositiveBins(cfg[2]))]

IdleSpectral ==
    /\ s_args = NoCall
    /\ s_ret = NoCall

InitSpectral ==
    /\ \E cfg \in SpectralConfigs : \E tones \in TonesOf(cfg) :
           s_args = SpectrumOf(cfg, tones)
    /\ s_ret = NoCall

\* analyzer.calculate_spectral_power(data, sampling_rate)
CalculateSpectralPower ==
    /\ s_ret = NoCall
    /\ s_ret' = calculate_spectral_power(s_args.power_spectrum,
                                         s_args.sampling_rate, s_args.n)
    /\ UNCHANGED s_args
    /\ SpectralFrame

\* The order in which the dicts built from self.rhythm_bands iterate.
BandOrder == <<"delta", "theta", "alpha", "beta", "gamma">>

\* a > b for two quotients over the same total power; with total power 0
\* both are nan and every comparison is false.
QuotientGreater(a, b) == a.den # 0 /\ b.den # 0 /\ a.num * b.den > b.num * a.den

\* A max() that keeps the last of equal maxima.
RECURSIVE MaxItemLast(_, _, _)
MaxItemLast(relative_power, i, best) ==
    IF i > Len(BandOrder) THEN best
    ELSE MaxItemLast(relative_power, i + 1,
                     IF QuotientGreater(relative_power[best],
                                        relative_power[BandOrder[i]])
                     THEN best ELSE BandOrder[i])

\* max(relative_power.items(), key=lambda x: x[1])[0]: the items in dict
\* order, an item replacing the best so far only when it is greater.
RECURSIVE MaxItem(_, _, _)
MaxItem(relative_power, i, best) ==
    IF i > Len(BandOrder) THEN best
    ELSE MaxItem(relative_power, i + 1,
                 IF QuotientGreater(relative_power[BandOrder[i]],
                                    relative_power[best])
                 THEN BandOrder[i] ELSE best)

\* The part of analyze_rhythms' result computed from the spectrum.
analyze_rhythms(power_spectrum, sampling_rate, n) ==
    calculate_spectral_power(power_spectrum, sampling_rate, n)
    @@ [dominant_rhythm |->
           MaxItem(calculate_spectral_power(power_spectrum, sampling_rate,
                                            n).relative_power,
                   2, BandOrder[1])]

\* analyzer.analyze_rhythms(data, sampling_rate, channel_idx)
AnalyzeRhythmsCall ==
    /\ s_args # NoCall
    /\ s_ret = NoCall
    /\ s_ret' = analyze_rhythms(s_args.power_spectrum, s_args.sampling_rate,
                                s_args.n)
    /\ UNCHANGED s_args
    /\ SpectralFrame

NextSpectral ==
    \/ CalculateSpectralPower
    \/ AnalyzeRhythmsCall

---------------------------------------------------------------------------
(* EEGAnalyzer: the recommendation rules                                   *)
(*                                                                         *)
(* A relative power is an integer count of hundredths.  A recommendation   *)
(* text is <<table, key>>: the method whose table holds it and the key it  *)
(* is stored under ("default": the fallback of dict.get).  The states are  *)
(* the code's Russian words for low, high and normal.                      *)

\* A dict lookup d[key] that raises KeyError, and a call that returns.
KeyError(key) == [kind |-> "KeyError", key |-> key, value |-> <<>>]
Value(v) == [kind |-> "return", key |-> "", value |-> v]

normal_ranges ==
    [delta |-> <<5, 25>>, theta |-> <<5, 15>>, alpha |-> <<10, 30>>,
     beta |-> <<15, 25>>, gamma |-> <<5, 15>>]

TextOf(table, rhythm) ==
    <<table, IF rhythm \in BandNames THEN rhythm ELSE "default">>

get_low_power_recommendation(rhythm) == TextOf("low_power", rhythm)
get_high_power_recommendation(rhythm) == TextOf("high_power", rhythm)
get_normal_recommendation(rhythm) == TextOf("normal", rhythm)

\* low, high = normal_ranges.get(rhythm, (0.05, 0.25))
NormalRange(rhythm) ==
    IF rhythm \in DOMAIN normal_ranges THEN normal_ranges[rhythm] ELSE <<5, 25>>

\* The classification with the bounds themselves outside the normal range.
analyze_rhythm_state_inclusive(rhythm, relative_power) ==
    IF relative_power <= NormalRange(rhythm)[1]
    THEN [state |-> "LOW", recommendation |-> get_low_power_recommendation(rhythm)]
    ELSE IF relative_power >= NormalRange(rhythm)[2]
         THEN [state |-> "HIGH",
               recommendation |-> get_high_power_recommendation(rhythm)]
         ELSE [state |-> "NORMAL",
               recommendation |-> get_normal_recommendation(rhythm)]

analyze_rhythm_state(rhythm, relative_power) ==
    IF relative_power < NormalRange(rhythm)[1]
    THEN [state |-> "LOW", recommendation |-> get_low_power_recommendation(rhythm)]
    ELSE IF relative_power > NormalRange(rhythm)[2]
         THEN [state |-> "HIGH",
               recommendation |-> get_high_power_recommendation(rhythm)]
         ELSE [state |-> "NORMAL",
               recommendation |-> get_normal_recommendation(rhythm)]

\* The cascade with the thresholds themselves inside the branches.
GeneralSummaryInclusive(dominant_rhythm, dominant_power) ==
    IF dominant_rhythm = "alpha" /\ dominant_power >= 25
    THEN [summary |-> "deep relaxation", relaxation_level |-> "HIGH"]
    ELSE IF dominant_rhythm = "beta" /\ dominant_power >= 25
    THEN [summary |-> "active wakefulness", relaxation_level |-> "LOW"]
    ELSE IF dominant_rhythm = "theta" /\ dominant_power >= 15
    THEN [summary |-> "meditative or drowsy", relaxation_level |-> "MEDIUM"]
    ELSE IF dominant_rhythm = "delta" /\ dominant_power >= 20
    THEN [summary |-> "deep sleep or rest", relaxation_level |-> "VERY_HIGH"]
    ELSE [summary |-> "balanced", relaxation_level |-> "NORMAL"]

\* the if/elif cascade over (dominant_rhythm, dominant_power)
GeneralSummary(dominant_rhythm, dominant_power) ==
    IF dominant_rhythm = "alpha" /\ dominant_power > 25
    THEN [summary |-> "deep relaxation", relaxation_level |-> "HIGH"]
    ELSE IF dominant_rhythm = "beta" /\ dominant_power > 25
    THEN [summary |-> "active wakefulness", relaxation_level |-> "LOW"]
    ELSE IF dominant_rhythm = "theta" /\ dominant_power > 15
    THEN [summary |-> "meditative or drowsy", relaxation_level |-> "MEDIUM"]
    ELSE IF dominant_rhythm = "delta" /\ dominant_power > 20
    THEN [summary |-> "deep sleep or rest", relaxation_level |-> "VERY_HIGH"]
    ELSE [summary |-> "balanced", relaxation_level |-> "NORMAL"]

\* dominant_power = rhythm_analysis[dominant_rhythm]['relative_power']
get_general_recommendations(dominant_rhythm, spectral_entropy, rhythm_analysis) ==
    IF dominant_rhythm \notin DOMAIN rhythm_analysis
    THEN KeyError(dominant_rhythm)
    ELSE Value(GeneralSummary(dominant_rhythm,
                              rhythm_analysis[dominant_rhythm].relative_power)
               @@ [dominant_rhythm |-> dominant_rhythm,
                   spectral_entropy |-> spectral_entropy])

\* if alpha_power > 0 and beta_power > 0: alpha_beta_ratio > 2.0, < 0.5
AlphaBetaRule(alpha_power, beta_power) ==
    IF alpha_power > 0 /\ beta_power > 0
    THEN IF alpha_power > 2 * beta_power THEN <<"high relaxation">>
         ELSE IF 2 * alpha_power < beta_power THEN <<"low relaxation">>
         ELSE <<>>
    ELSE <<>>

\* if theta_power > 0.20 ... elif theta_power < 0.05
ThetaRule(theta_power) ==
    IF theta_power > 20 THEN <<"elevated theta">>
    ELSE IF theta_power < 5 THEN <<"low theta">>
    ELSE <<>>

RECURSIVE SumRelative(_, _)
SumRelative(rhythm_analysis, keys) ==
    IF keys = {} THEN 0
    ELSE LET k == CHOOSE x \in keys : TRUE
         IN  rhythm_analysis[k].relative_power
             + SumRelative(rhythm_analysis, keys \ {k})

\* if abs(total_power - 1.0) > 0.1
BalanceRule(total_power) ==
    IF total_power - 100 > 10 \/ 100 - total_power > 10
    THEN <<"imbalance">> ELSE <<>>

\* alpha_power = rhythm_analysis['alpha'][...], then 'beta', then 'theta'
get_specific_recommendations(rhythm_analysis) ==
    IF "alpha" \notin DOMAIN rhythm_analysis THEN KeyError("alpha")
    ELSE IF "beta" \notin DOMAIN rhythm_analysis THEN KeyError("beta")
    ELSE IF "theta" \notin DOMAIN rhythm_analysis THEN KeyError("theta")
    ELSE Value(AlphaBetaRule(rhythm_analysis.alpha.relative_power,
                             rhythm_analysis.beta.relative_power)
               \o ThetaRule(rhythm_analysis.theta.relative_power)
               \o BalanceRule(SumRelative(rhythm_analysis, DOMAIN rhythm_analysis)))

\* for rhythm, analysis in rhythm_analysis.items(): rhythm_details[rhythm] = ...
RhythmDetails(rhythm_analysis) ==
    [rhythm \in DOMAIN rhythm_analysis |->
        analyze_rhythm_state(rhythm, rhythm_analysis[rhythm].relative_power)
        @@ [relative_power |-> rhythm_analysis[rhythm].relative_power]]

\* The three parts in the order the code computes them: an exception of a
\* later part leaves the call without a result.
Recommendations(rhythm_details, general, specific) ==
    IF general.kind # "return" THEN general
    ELSE IF specific.kind # "return" THEN specific
    ELSE Value([general |-> general.value,
                rhythm_details |-> rhythm_details,
                specific_recommendations |-> specific.value])

get_rhythm_recommendations(analysis_result) ==
    Recommendations(
        RhythmDetails(analysis_result.rhythm_analysis),
        get_general_recommendations(analysis_result.dominant_rhythm,
                                    analysis_result.spectral_entropy,
                                    analysis_result.rhythm_analysis),
        get_specific_recommendations(analysis_result.rhythm_analysis))

MaxRelative == 35
RelativeChoices == {4, 20, 45}
EntropyChoices == {0, 3}

\* Analysis results whose rhythm_analysis holds any subset of the bands.
AnalysisResults ==
    UNION {[rhythm_analysis : [present -> [relative_power : RelativeChoices]],
            dominant_rhythm : BandNames,
            spectral_entropy : EntropyChoices] : present \in SUBSET BandNames}

IdleRules ==
    /\ r_args = NoCall
    /\ r_ret = NoCall

InitRules ==
    /\ r_args \in
          {[call |-> "get_rhythm_recommendations", analysis_result |-> a] :
              a \in AnalysisResults}
          \cup {[call |-> "analyze_rhythm_state", rhythm |-> b, relative_power |-> p] :
                   b \in BandNames, p \in 0..MaxRelative}
          \cup {[call |-> "get_general_recommendations", dominant_rhythm |-> b,
                 spectral_entropy |-> e,
                 rhythm_analysis |-> (b :> [relative_power |-> p])] :
                   b \in BandNames, e \in EntropyChoices, p \in 0..MaxRelative}
    /\ r_ret = NoCall

\* analyzer.get_rhythm_recommendations(analysis_result)
GetRhythmRecommendations ==
    /\ r_ret = NoCall
    /\ r_args.call = "get_rhythm_recommendations"
    /\ r_ret' = get_rhythm_recommendations(r_args.analysis_result)
    /\ UNCHANGED r_args
    /\ RulesFrame

\* state, recommendation = analyzer.analyze_rhythm_state(rhythm, relative_power)
AnalyzeRhythmState ==
    /\ r_ret = NoCall
    /\ r_args.call = "analyze_rhythm_state"
    /\ r_ret' = Value(analyze_rhythm_state(r_args.rhythm, r_args.relative_power))
    /\ UNCHANGED r_args
    /\ RulesFrame

\* analyzer.get_general_recommendations(dominant_rhythm, spectral_entropy,
\*                                      rhythm_analysis)
GetGeneralRecommendations ==
    /\ r_ret = NoCall
    /\ r_args.call = "get_general_recommendations"
    /\ r_ret' = get_general_recommendations(r_args.dominant_rhythm,
                                            r_args.spectral_entropy,
                                            r_args.rhythm_analysis)
    /\ UNCHANGED r_args
    /\ RulesFrame

NextRules ==
    \/ GetRhythmRecommendations
    \/ AnalyzeRhythmState
    \/ GetGeneralRecommendations

---------------------------------------------------------------------------
(* EEGAnalyzer.calculate_coherence                                         *)
(*                                                                         *)
(* The data is its shape: ndim, and shape[0] (the channel rows of a 2-D    *)
(* array).  scipy.signal.coherence is the environment and returns.         *)

\* numpy's data[c] on an axis of `rows` entries: a negative c counts from
\* the end, and an index outside -rows .. rows - 1 raises IndexError
RowOf(c, rows) == IF c < 0 THEN c + rows ELSE c
IndexInRange(c, rows) == -rows <= c /\ c < rows

calculate_coherence(data, channel1, channel2) ==
    IF data.ndim # 2
    THEN [kind |-> "ValueError", x |-> -1, y |-> -1]
    ELSE IF ~IndexInRange(channel1, data.rows)
    THEN [kind |-> "IndexError", x |-> -1, y |-> -1]
    ELSE IF ~IndexInRange(channel2, data.rows)
    THEN [kind |-> "IndexError", x |-> -1, y |-> -1]
    ELSE [kind |-> "return", x |-> RowOf(channel1, data.rows),
          y |-> RowOf(channel2, data.rows)]

MaxRows == 3

IdleCoherence ==
    /\ c_args = NoCall
    /\ c_ret = NoCall

InitCoherence ==
    /\ c_args \in [data : [ndim : {1, 2}, rows : 1..MaxRows],
                   channel1 : (-MaxRows)..MaxRows,
                   channel2 : (-MaxRows)..MaxRows]
    /\ c_ret = NoCall

\* analyzer.calculate_coherence(data, channel1, channel2, sampling_rate)
CalculateCoherence ==
    /\ c_ret = NoCall
    /\ c_ret' = calculate_coherence(c_args.data, c_args.channel1, c_args.channel2)
    /\ UNCHANGED c_args
    /\ CoherenceFrame

NextCoherence == CalculateCoherence

---------------------------------------------------------------------------
(* EEGAnalyzer.detect_spikes                                               *)
(*                                                                         *)
(* The signal is a sequence of integers.  Deviations from the mean are     *)
(* kept multiplied by the length n, so that they are integers, and a       *)
(* deviation is compared with threshold * std by its square.  A peak is a  *)
(* 1-based position; the code's 0-based index is the position minus one.   *)

Abs(x) == IF x < 0 THEN -x ELSE x

\* np.abs(signal_data - mean), times n
Deviations(signal_data) ==
    LET total == SumSeq(signal_data)
    IN  [i \in 1..Len(signal_data) |-> Abs(Len(signal_data) * signal_data[i] - total)]

Deviation(signal_data, i) == Deviations(signal_data)[i]

\* The last position of the flat stretch of x that starts at i.
PlateauEnd(x, i) ==
    SetMax({j \in i..Len(x) : \A k \in i..j : x[k] = x[i]})

\* scipy's local maxima of x: a sample, or the middle (rounded down) of a
\* flat stretch, that is strictly above the sample before it and the sample
\* after it; never the first or last sample.
LocalMaxima(x) ==
    {(i + PlateauEnd(x, i)) \div 2 : i \in
        {i \in 2..Len(x) :
            /\ x[i - 1] < x[i]
            /\ PlateauEnd(x, i) < Len(x)
            /\ x[PlateauEnd(x, i) + 1] < x[i]}}

\* n * n * std * std
ScaledVariance(signal_data) ==
    Len(signal_data) * SumSquares(signal_data)
    - SumSeq(signal_data) * SumSeq(signal_data)

\* height=threshold * std: the peaks of x whose value is at least the height
PeaksAtHeight(x, threshold, variance) ==
    {i \in LocalMaxima(x) :
        threshold[2] * threshold[2] * x[i] * x[i]
            >= threshold[1] * threshold[1] * variance}

AboveHeight(signal_data, threshold) ==
    PeaksAtHeight(Deviations(signal_data), threshold, ScaledVariance(signal_data))

\* distance=sampling_rate * 0.1, rounded up to whole samples by find_peaks
PeakDistance(sampling_rate) == (sampling_rate + 9) \div 10

\* The orders in which find_peaks may visit the peaks: by decreasing
\* deviation; np.argsort leaves the order of equal deviations open.
PriorityOrders(peaks, signal_data) ==
    {order \in [1..Cardinality(peaks) -> peaks] :
        /\ \A i, j \in 1..Cardinality(peaks) : i # j => order[i] # order[j]
        /\ \A i, j \in 1..Cardinality(peaks) :
               i < j => Deviation(signal_data, order[i])
                            >= Deviation(signal_data, order[j])}

RECURSIVE SortedSeq(_)
SortedSeq(S) ==
    IF S = {} THEN <<>> ELSE <<SetMin(S)>> \o SortedSeq(S \ {SetMin(S)})

\* The distance condition with the peaks visited from the first position to
\* the last instead of from the highest down.
RECURSIVE SelectByPosition(_, _, _, _, _)
SelectByPosition(peaks, order, distance, i, removed) ==
    IF i > Len(order)
    THEN peaks \ removed
    ELSE SelectByPosition(peaks, order, distance, i + 1,
             IF SortedSeq(peaks)[i] \in removed
             THEN removed
             ELSE removed \cup {k \in peaks :
                      k # SortedSeq(peaks)[i]
                      /\ Abs(k - SortedSeq(peaks)[i]) < distance})

\* The distance condition of find_peaks: the peaks are visited from the
\* highest down; a peak still kept removes every other peak closer than
\* distance to it.
RECURSIVE SelectByPeakDistance(_, _, _, _, _)
SelectByPeakDistance(peaks, order, distance, i, removed) ==
    IF i > Len(order)
    THEN peaks \ removed
    ELSE SelectByPeakDistance(peaks, order, distance, i + 1,
             IF order[i] \in removed
             THEN removed
             ELSE removed \cup {k \in peaks :
                      k # order[i] /\ Abs(k - order[i]) < distance})

\* The returned dictionary: spike_times = peaks / sampling_rate as the
\* fractions (0-based index) / sampling_rate, spike_count = len(peaks).
SpikeResult(peaks, sampling_rate) ==
    [kind |-> "return",
     spike_times |-> [i \in 1..Len(peaks) |->
                         [num |-> peaks[i] - 1, den |-> sampling_rate]],
     spike_count |-> Len(peaks)]

\* find_peaks raises ValueError for a distance below 1.
detect_spikes(signal_data, sampling_rate, threshold, order) ==
    IF sampling_rate < 10
    THEN [kind |-> "ValueError", spike_times |-> <<>>, spike_count |-> 0]
    ELSE SpikeResult(
             SortedSeq(SelectByPeakDistance(AboveHeight(signal_data, threshold),
                           order, PeakDistance(sampling_rate), 1, {})),
             sampling_rate)

MaxSignalLen == 7
SpikeSampleChoices == {0, 8, 9}
SpikeRateChoices == {5, 30, 50}
SpikeThresholdChoices == {<<0, 1>>, <<1, 1>>}

IdleSpikes ==
    /\ d_args = NoCall
    /\ d_ret = NoCall

InitSpikes ==
    /\ \E n \in 1..MaxSignalLen : \E signal_data \in [1..n -> SpikeSampleChoices] :
       \E sampling_rate \in SpikeRateChoices :
       \E threshold \in SpikeThresholdChoices :
           d_args = [signal_data |-> signal_data, sampling_rate |-> sampling_rate,
                     threshold |-> threshold]
    /\ d_ret = NoCall

\* analyzer.detect_spikes(data, sampling_rate, threshold)
DetectSpikes ==
    /\ d_ret = NoCall
    /\ \E order \in PriorityOrders(AboveHeight(d_args.signal_data, d_args.threshold),
                                   d_args.signal_data) :
           d_ret' = detect_spikes(d_args.signal_data, d_args.sampling_rate,
                                  d_args.threshold, order)
    /\ UNCHANGED d_args
    /\ SpikesFrame

NextSpikes == DetectSpikes

---------------------------------------------------------------------------
(* RealtimeEEGController: the producer thread, the timer-driven consumer   *)
(* and start()/stop() of the main thread.                                  *)
(*                                                                         *)
(* A sample is its serial number; a batch is the sequence of its samples.  *)
(* The producer thread takes one step per statement that reads or writes   *)
(* shared state (the running flag, the queue, the driver); the main thread *)
(* runs start(), stop() and the timer's _process_queue(), one queue access *)
(* per step.  k_delivered and k_dropped record where every batch that left *)
(* the queue went.                                                         *)

\* queue.Queue(maxsize=...): the capacity, scaled down from the code's 64
maxsize == 2
max_batches_per_cycle == 5

MaxSamples == 4
MaxStarts == 2
MaxStops == 2

DriverKinds == {"synthetic", "serial"}
BatchSizeChoices == {1, 2}

\* A queue that lets one batch more in than maxsize.
QueueFullAboveMaxsize(q) == Len(q) > maxsize

\* queue.Queue.full() and .empty()
QueueFull(q) == Len(q) >= maxsize
QueueEmpty(q) == Len(q) = 0

IdleRealtime ==
    /\ k_cfg = NoCall
    /\ k_running = FALSE
    /\ k_timer = FALSE
    /\ k_thread = "none"
    /\ k_pc = "none"
    /\ k_batch = <<>>
    /\ k_queue = <<>>
    /\ k_driver = "new"
    /\ k_main = "idle"
    /\ k_processed = 0
    /\ k_status = <<>>
    /\ k_errors = 0
    /\ k_delivered = <<>>
    /\ k_dropped = <<>>
    /\ k_yielded = 0
    /\ k_stats = [samples_received |-> 0, batches_processed |-> 0]
    /\ k_closes = 0
    /\ k_calls = [start |-> 0, stop |-> 0]

\* RealtimeEEGController(driver, batch_size)
InitRealtime ==
    /\ k_cfg \in [driver : DriverKinds, batch_size : BatchSizeChoices,
                  open_fails : BOOLEAN, iter_fails : BOOLEAN]
    /\ k_cfg.driver = "synthetic" => ~k_cfg.open_fails /\ ~k_cfg.iter_fails
    /\ ~(k_cfg.open_fails /\ k_cfg.iter_fails)
    /\ k_running = FALSE
    /\ k_timer = FALSE
    /\ k_thread = "none"
    /\ k_pc = "none"
    /\ k_batch = <<>>
    /\ k_queue = <<>>
    /\ k_driver = "new"
    /\ k_main = "idle"
    /\ k_processed = 0
    /\ k_status = <<>>
    /\ k_errors = 0
    /\ k_delivered = <<>>
    /\ k_dropped = <<>>
    /\ k_yielded = 0
    /\ k_stats = [samples_received |-> 0, batches_processed |-> 0]
    /\ k_closes = 0
    /\ k_calls = [start |-> 0, stop |-> 0]

producerVars ==
    <<k_pc, k_batch, k_thread, k_driver, k_errors, k_yielded, k_stats, k_closes>>
mainVars == <<k_running, k_timer, k_main, k_processed, k_status, k_calls>>

\* start(): nothing when the thread is alive; else the flag is set, a new
\* thread starts at driver.open(), the timer starts and the status is emitted.
Start ==
    /\ k_cfg # NoCall
    /\ k_main = "idle"
    /\ k_calls.start < MaxStarts
    /\ k_calls' = [k_calls EXCEPT !.start = @ + 1]
    /\ IF k_thread = "alive"
       THEN UNCHANGED <<k_running, k_timer, k_thread, k_pc, k_batch, k_status>>
       ELSE /\ k_running' = TRUE
            /\ k_thread' = "alive"
            /\ k_pc' = "open"
            /\ k_batch' = <<>>
            /\ k_timer' = TRUE
            /\ k_status' = Append(k_status, "started")
    /\ UNCHANGED <<k_cfg, k_queue, k_driver, k_main, k_processed, k_errors,
                   k_delivered, k_dropped, k_yielded, k_stats, k_closes>>
    /\ RealtimeFrame

\* A stop() that goes on whatever the flag says.
StopAlwaysProceeds == FALSE

\* if not self._running.is_set(): return
StopReturnsAtOnce == ~k_running

\* stop() up to the join: nothing when the flag is clear; else the flag is
\* cleared, the timer stopped and the thread joined.
Stop ==
    /\ k_cfg # NoCall
    /\ k_main = "idle"
    /\ k_calls.stop < MaxStops
    /\ k_calls' = [k_calls EXCEPT !.stop = @ + 1]
    /\ IF StopReturnsAtOnce
       THEN UNCHANGED <<k_running, k_timer, k_main>>
       ELSE /\ k_running' = FALSE
            /\ k_timer' = FALSE
            /\ k_main' = "joining"
    /\ UNCHANGED <<k_cfg, k_queue, k_processed, k_status, k_delivered, k_dropped>>
    /\ UNCHANGED producerVars
    /\ RealtimeFrame

\* self._thread.join(timeout=2.0) returns, because the thread ended or the
\* two seconds passed; then the status is emitted.
StopJoined ==
    /\ k_main = "joining"
    /\ k_main' = "idle"
    /\ k_status' = Append(k_status, "stopped")
    /\ UNCHANGED <<k_cfg, k_running, k_timer, k_processed, k_calls, k_queue,
                   k_delivered, k_dropped>>
    /\ UNCHANGED producerVars
    /\ RealtimeFrame

\* The timer fires: _process_queue() starts its cycle.
TimerFires ==
    /\ k_main = "idle"
    /\ k_timer
    /\ k_main' = "processing"
    /\ k_processed' = 0
    /\ UNCHANGED <<k_cfg, k_running, k_timer, k_status, k_calls, k_queue,
                   k_delivered, k_dropped>>
    /\ UNCHANGED producerVars
    /\ RealtimeFrame

\* One turn of the loop of _process_queue(): get_nowait() and emit, or the
\* end of the cycle at five batches or at an empty queue.
ProcessQueue ==
    /\ k_main = "processing"
    /\ IF k_processed < max_batches_per_cycle /\ ~QueueEmpty(k_queue)
       THEN /\ k_queue' = Tail(k_queue)
            /\ k_delivered' = Append(k_delivered, Head(k_queue))
            /\ k_processed' = k_processed + 1
            /\ UNCHANGED k_main
       ELSE /\ k_main' = "idle"
            /\ UNCHANGED <<k_queue, k_delivered, k_processed>>
    /\ UNCHANGED <<k_cfg, k_running, k_timer, k_status, k_calls, k_dropped>>
    /\ UNCHANGED producerVars
    /\ RealtimeFrame

\* An exception that leaves the thread without the finally clause.
ExceptionExitSkippingClose == "done"

\* except Exception: error_occurred is emitted, then the finally clause runs.
ExceptionExit == "close"

\* The statements of _acquisition_loop() up to the first sample.
DriverOpen ==
    /\ k_pc = "open"
    /\ IF k_cfg.open_fails
       THEN /\ k_errors' = k_errors + 1
            /\ k_pc' = ExceptionExit
            /\ UNCHANGED k_driver
       ELSE /\ k_driver' = "open"
            /\ k_pc' = "next"
            /\ UNCHANGED k_errors
    /\ UNCHANGED <<k_cfg, k_batch, k_thread, k_yielded, k_stats, k_queue,
                   k_delivered, k_dropped, k_closes>>
    /\ UNCHANGED mainVars
    /\ RealtimeFrame

\* The loop body for one sample: the break on a cleared flag, else
\* batch.append(sample) and samples_received += 1.
TakeSample ==
    IF ~k_running
    THEN /\ k_pc' = "close"
         /\ UNCHANGED <<k_batch, k_yielded, k_stats>>
    ELSE /\ k_yielded < MaxSamples
         /\ k_yielded' = k_yielded + 1
         /\ k_batch' = Append(k_batch, k_yielded + 1)
         /\ k_stats' = [k_stats EXCEPT !.samples_received = @ + 1]
         /\ k_pc' = IF Len(k_batch) + 1 >= k_cfg.batch_size THEN "put" ELSE "next"

\* SyntheticEEGDriver.iter_samples() yields its next sample.
SyntheticYields ==
    /\ k_pc = "next"
    /\ k_cfg.driver = "synthetic"
    /\ TakeSample
    /\ UNCHANGED <<k_cfg, k_thread, k_driver, k_errors, k_queue, k_delivered,
                   k_dropped, k_closes>>
    /\ UNCHANGED mainVars
    /\ RealtimeFrame

\* SerialEEGDriver.iter_samples() yields a sample: the device sent a line.
SerialYields ==
    /\ k_pc = "next"
    /\ k_cfg.driver = "serial"
    /\ ~k_cfg.iter_fails
    /\ TakeSample
    /\ UNCHANGED <<k_cfg, k_thread, k_driver, k_errors, k_queue, k_delivered,
                   k_dropped, k_closes>>
    /\ UNCHANGED mainVars
    /\ RealtimeFrame

\* SerialEEGDriver.iter_samples() ends: ser.read() raised and the loop broke.
SerialBreaks ==
    /\ k_pc = "next"
    /\ k_cfg.driver = "serial"
    /\ ~k_cfg.iter_fails
    /\ k_pc' = "close"
    /\ UNCHANGED <<k_cfg, k_batch, k_thread, k_driver, k_errors, k_yielded,
                   k_stats, k_queue, k_delivered, k_dropped, k_closes>>
    /\ UNCHANGED mainVars
    /\ RealtimeFrame

\* SerialEEGDriver.iter_samples() raises: the port is not open.
SerialRaises ==
    /\ k_pc = "next"
    /\ k_cfg.driver = "serial"
    /\ k_cfg.iter_fails
    /\ k_errors' = k_errors + 1
    /\ k_pc' = ExceptionExit
    /\ UNCHANGED <<k_cfg, k_batch, k_thread, k_driver, k_yielded, k_stats,
                   k_closes, k_queue, k_delivered, k_dropped>>
    /\ UNCHANGED mainVars
    /\ RealtimeFrame

\* self.queue.put_nowait(EEGSampleBatch(samples=batch.copy())) of a full batch
PutBatch ==
    /\ k_pc = "put"
    /\ IF ~QueueFull(k_queue)
       THEN /\ k_queue' = Append(k_queue, k_batch)
            /\ k_batch' = <<>>
            /\ k_stats' = [k_stats EXCEPT !.batches_processed = @ + 1]
            /\ k_pc' = "next"
       ELSE /\ k_pc' = "full_get"
            /\ UNCHANGED <<k_queue, k_batch, k_stats>>
    /\ UNCHANGED <<k_cfg, k_thread, k_driver, k_errors, k_yielded, k_delivered,
                   k_dropped, k_closes>>
    /\ UNCHANGED mainVars
    /\ RealtimeFrame

\* except queue.Full: self.queue.get_nowait(), with except queue.Empty: pass
FullGet ==
    /\ k_pc = "full_get"
    /\ IF QueueEmpty(k_queue)
       THEN /\ k_pc' = "next"
            /\ UNCHANGED <<k_queue, k_dropped>>
       ELSE /\ k_queue' = Tail(k_queue)
            /\ k_dropped' = Append(k_dropped, Head(k_queue))
            /\ k_pc' = "full_put"
    /\ UNCHANGED <<k_cfg, k_batch, k_thread, k_driver, k_errors, k_yielded,
                   k_stats, k_delivered, k_closes>>
    /\ UNCHANGED mainVars
    /\ RealtimeFrame

\* The put_nowait() after the get_nowait(); a queue.Full here is caught by
\* except Exception and ends the loop.
FullPut ==
    /\ k_pc = "full_put"
    /\ IF ~QueueFull(k_queue)
       THEN /\ k_queue' = Append(k_queue, k_batch)
            /\ k_batch' = <<>>
            /\ k_pc' = "next"
            /\ UNCHANGED k_errors
       ELSE /\ k_errors' = k_errors + 1
            /\ k_pc' = ExceptionExit
            /\ UNCHANGED <<k_queue, k_batch>>
    /\ UNCHANGED <<k_cfg, k_thread, k_driver, k_yielded, k_stats, k_delivered,
                   k_dropped, k_closes>>
    /\ UNCHANGED mainVars
    /\ RealtimeFrame

\* finally: self.driver.close(); the thread ends.
DriverClose ==
    /\ k_pc = "close"
    /\ k_driver' = "closed"
    /\ k_thread' = "dead"
    /\ k_pc' = "done"
    /\ k_closes' = k_closes + 1
    /\ UNCHANGED <<k_cfg, k_batch, k_errors, k_yielded, k_stats, k_queue,
                   k_delivered, k_dropped>>
    /\ UNCHANGED mainVars
    /\ RealtimeFrame

\* The steps the producer thread takes by itself.
ProducerStep ==
    DriverOpen \/ SerialRaises \/ PutBatch \/ FullGet \/ FullPut \/ DriverClose

NextRealtime ==
    \/ Start
    \/ Stop
    \/ StopJoined
    \/ TimerFires
    \/ ProcessQueue
    \/ DriverOpen
    \/ SyntheticYields
    \/ SerialYields
    \/ SerialBreaks
    \/ SerialRaises
    \/ PutBatch
    \/ FullGet
    \/ FullPut
    \/ DriverClose

---------------------------------------------------------------------------
(* The application: ProcessingThread and AnalysisThread (gui/threads.py)   *)
(* and the slots of ProcessingMethods (app/processing.py) that receive     *)
(* their signals.                                                          *)
(*                                                                         *)
(* A data array is the sequence of its rows as in the preprocessor model:  *)
(* a row carries the stages applied to it.  A worker's run is one step; it *)
(* leaves the signals it emitted in the order of emission, and the main    *)
(* thread's slots take them one by one.                                    *)

NoneValue == [kind |-> "None"]

\* What a stage of the run has produced so far: the array, or the exception
\* that ended the run, and the info signals emitted.
StageOk(value, infos) == [kind |-> "return", value |-> value, infos |-> infos]
StageRaised(infos) == [kind |-> "error", value |-> <<>>, infos |-> infos]

\* self.info_signal.emit("..."); processed_data = self.preprocessor.apply_filters(...)
FilterStage(data, sampling_rate, params, fail) ==
    IF apply_filters(data, sampling_rate, params.low_freq, params.high_freq,
                     params.notch_freq, fail).kind = "return"
    THEN StageOk(apply_filters(data, sampling_rate, params.low_freq,
                               params.high_freq, params.notch_freq, fail).value,
                 <<"start">>)
    ELSE StageRaised(<<"start">>)

\* A stage that runs whatever its flag says.
FlaggedStageAlways(previous, enabled, stage, fails) ==
    IF previous.kind # "return" THEN previous
    ELSE IF fails THEN StageRaised(Append(previous.infos, stage))
    ELSE StageOk([i \in 1..Len(previous.value) |->
                     filtfilt(<<stage, 0, 0>>, previous.value[i])],
                 Append(previous.infos, stage))

\* if self.processing_params[flag]: info_signal.emit(...);
\*     processed_data = self.preprocessor.<stage>(processed_data)
FlaggedStage(previous, enabled, stage, fails) ==
    IF previous.kind # "return" THEN previous
    ELSE IF ~enabled THEN previous
    ELSE IF fails THEN StageRaised(Append(previous.infos, stage))
    ELSE StageOk([i \in 1..Len(previous.value) |->
                     filtfilt(<<stage, 0, 0>>, previous.value[i])],
                 Append(previous.infos, stage))

\* The signals of a run: the info signals, then result_signal or error_signal.
RunSignals(last) ==
    IF last.kind = "return"
    THEN [i \in 1..Len(last.infos) |-> [signal |-> "info", value |-> last.infos[i]]]
         \o <<[signal |-> "info", value |-> "done"],
              [signal |-> "result", value |-> last.value]>>
    ELSE [i \in 1..Len(last.infos) |-> [signal |-> "info", value |-> last.infos[i]]]
         \o <<[signal |-> "error", value |-> "str(e)"]>>

\* ProcessingThread.run()
ProcessingRun(data, sampling_rate, params, fail) ==
    RunSignals(
        FlaggedStage(
            FlaggedStage(
                FlaggedStage(FilterStage(data, sampling_rate, params, fail),
                             params.detrend, "detrend", fail.detrend),
                params.remove_dc, "remove_dc", fail.remove_dc),
            params.remove_artifacts, "remove_artifacts", fail.remove_artifacts))

\* AnalysisThread.run(): the analysis of the data, or the exception it raised.
AnalysisRun(data, channel_idx, fails) ==
    IF fails
    THEN <<[signal |-> "info", value |-> "start"],
           [signal |-> "error", value |-> "str(e)"]>>
    ELSE <<[signal |-> "info", value |-> "start"],
           [signal |-> "info", value |-> "done"],
           [signal |-> "result",
            value |-> [kind |-> "analysis", data |-> data,
                       channel_idx |-> channel_idx]]>>

MaxLoads == 2
MaxAdoptions == 1
MaxProcessRuns == 2
MaxAnalysisRuns == 2

\* self.processing_params: the settings of init_processing_params, and the
\* same with the three optional stages switched on in the panel.
ProcessingParamChoices ==
    {[low_freq |-> mHz(1000), high_freq |-> mHz(40000), notch_freq |-> mHz(50000),
      detrend |-> on, remove_dc |-> on, remove_artifacts |-> on] :
        on \in BOOLEAN}

AppSamplingRate == mHz(250000)

\* At most one stage of a run raises.
NoFailure ==
    [bandpass |-> {}, notch |-> {}, detrend |-> FALSE, remove_dc |-> FALSE,
     remove_artifacts |-> FALSE]
FailureChoices ==
    {NoFailure,
     [NoFailure EXCEPT !.bandpass = {0}],
     [NoFailure EXCEPT !.notch = {0}],
     [NoFailure EXCEPT !.detrend = TRUE],
     [NoFailure EXCEPT !.remove_dc = TRUE],
     [NoFailure EXCEPT !.remove_artifacts = TRUE]}

\* The failures the application's runs are checked with.
AppFailureChoices ==
    {NoFailure, [NoFailure EXCEPT !.bandpass = {0}],
     [NoFailure EXCEPT !.remove_artifacts = TRUE]}

InitialButtons ==
    [btn_process |-> FALSE, btn_process_text |-> "process",
     btn_analyze |-> FALSE, btn_analyze_text |-> "analyze",
     btn_analyze_single |-> FALSE, btn_analyze_single_text |-> "analyze single",
     btn_validate |-> FALSE, btn_save_report |-> FALSE]

IdleApp ==
    /\ p_raw_data = NoCall
    /\ p_processed_data = NoCall
    /\ p_current_analysis = NoCall
    /\ p_buttons = NoCall
    /\ p_process_thread = NoCall
    /\ p_signals = <<>>
    /\ p_analysis_thread = NoCall
    /\ p_analysis_signals = <<>>
    /\ p_dialogs = <<>>
    /\ p_runs = NoCall

\* EEGApp.__init__
InitApp ==
    /\ p_raw_data = NoneValue
    /\ p_processed_data = NoneValue
    /\ p_current_analysis = NoneValue
    /\ p_buttons = InitialButtons
    /\ p_process_thread = NoneValue
    /\ p_signals = <<>>
    /\ p_analysis_thread = NoneValue
    /\ p_analysis_signals = <<>>
    /\ p_dialogs = <<>>
    /\ p_runs = [load |-> 0, adopt |-> 0, process |-> 0, analyze |-> 0]

appVars == <<p_raw_data, p_processed_data, p_current_analysis, p_buttons, p_dialogs>>

\* The attributes of the window that the slots read and write.
AppState ==
    [processed_data |-> p_processed_data, current_analysis |-> p_current_analysis,
     buttons |-> p_buttons, dialogs |-> p_dialogs]

SetApp(app) ==
    /\ p_processed_data' = app.processed_data
    /\ p_current_analysis' = app.current_analysis
    /\ p_buttons' = app.buttons
    /\ p_dialogs' = app.dialogs

on_processing_complete(app, processed_data) ==
    [app EXCEPT !.processed_data = [kind |-> "data", rows |-> processed_data],
                !.buttons = [@ EXCEPT !.btn_process = TRUE,
                                      !.btn_process_text = "process",
                                      !.btn_analyze = TRUE,
                                      !.btn_analyze_single = TRUE,
                                      !.btn_validate = TRUE]]

\* An error slot that also forgets the results.
on_processing_error_clearing(app, error_msg) ==
    [app EXCEPT !.processed_data = NoneValue,
                !.buttons = [@ EXCEPT !.btn_process = TRUE,
                                      !.btn_process_text = "process"],
                !.dialogs = Append(@, <<"processing error", error_msg>>)]

on_processing_error(app, error_msg) ==
    [app EXCEPT !.buttons = [@ EXCEPT !.btn_process = TRUE,
                                      !.btn_process_text = "process"],
                !.dialogs = Append(@, <<"processing error", error_msg>>)]

on_analysis_complete(app, result) ==
    [app EXCEPT !.current_analysis = result,
                !.buttons = [@ EXCEPT !.btn_analyze = TRUE,
                                      !.btn_analyze_text = "analyze",
                                      !.btn_analyze_single = TRUE,
                                      !.btn_save_report = TRUE]]

on_analysis_error(app, error_msg) ==
    [app EXCEPT !.buttons = [@ EXCEPT !.btn_analyze = TRUE,
                                      !.btn_analyze_text = "analyze",
                                      !.btn_analyze_single = TRUE,
                                      !.btn_analyze_single_text = "analyze single"],
                !.dialogs = Append(@, <<"analysis error", error_msg>>)]

\* on_data_loaded(result): new raw data, the results reset
OnDataLoaded ==
    /\ p_runs # NoCall
    /\ p_runs.load < MaxLoads
    /\ p_runs' = [p_runs EXCEPT !.load = @ + 1]
    /\ p_raw_data' = [kind |-> "data", rows |-> RawData(1)]
    /\ p_processed_data' = NoneValue
    /\ p_current_analysis' = NoneValue
    /\ p_buttons' = [p_buttons EXCEPT !.btn_process = TRUE, !.btn_analyze = FALSE]
    /\ UNCHANGED <<p_process_thread, p_signals, p_analysis_thread,
                   p_analysis_signals, p_dialogs>>
    /\ AppFrame

\* data_loader.generate_test_data(): an array of several channels.
TestData == RawData(MaxChannels)

\* generate_test_data(): new raw data, the results reset; an exception of the
\* generator is shown and nothing is assigned
GenerateTestData ==
    /\ p_runs # NoCall
    /\ p_runs.adopt < MaxAdoptions
    /\ p_runs' = [p_runs EXCEPT !.adopt = @ + 1]
    /\ \E raises \in BOOLEAN :
          IF raises
          THEN /\ p_dialogs' = Append(p_dialogs, <<"error", "generation error">>)
               /\ UNCHANGED <<p_raw_data, p_processed_data, p_current_analysis,
                              p_buttons>>
          ELSE /\ p_raw_data' = [kind |-> "data", rows |-> TestData]
               /\ p_processed_data' = NoneValue
               /\ p_current_analysis' = NoneValue
               /\ p_buttons' = [p_buttons EXCEPT !.btn_process = TRUE,
                                                 !.btn_analyze = FALSE]
               /\ UNCHANGED p_dialogs
    /\ UNCHANGED <<p_process_thread, p_signals, p_analysis_thread,
                   p_analysis_signals>>
    /\ AppFrame

\* self.recorded_data after a recording: the one channel of the buffer.
RecordedData == <<[id |-> 0, stages |-> <<>>]>>

\* use_recorded_data(): the recording becomes the raw data, the results reset
UseRecordedData ==
    /\ p_runs # NoCall
    /\ p_runs.adopt < MaxAdoptions
    /\ p_runs' = [p_runs EXCEPT !.adopt = @ + 1]
    /\ \E recorded_data \in {NoneValue, [kind |-> "data", rows |-> RecordedData]} :
          IF recorded_data = NoneValue
          THEN /\ p_dialogs' = Append(p_dialogs, <<"warning", "no recorded data">>)
               /\ UNCHANGED <<p_raw_data, p_processed_data, p_current_analysis,
                              p_buttons>>
          ELSE /\ p_raw_data' = recorded_data
               /\ p_processed_data' = NoneValue
               /\ p_current_analysis' = NoneValue
               /\ p_buttons' = [p_buttons EXCEPT !.btn_process = TRUE,
                                                 !.btn_analyze = FALSE]
               /\ p_dialogs' = Append(p_dialogs, <<"information", "recorded data loaded">>)
    /\ UNCHANGED <<p_process_thread, p_signals, p_analysis_thread,
                   p_analysis_signals>>
    /\ AppFrame

\* process_data(): the button is pressed with the settings of the panel
ProcessData ==
    /\ p_runs # NoCall
    /\ p_buttons.btn_process
    /\ p_runs.process < MaxProcessRuns
    /\ p_runs' = [p_runs EXCEPT !.process = @ + 1]
    /\ IF p_raw_data = NoneValue
       THEN /\ p_dialogs' = Append(p_dialogs, <<"warning", "load data first">>)
            /\ UNCHANGED <<p_buttons, p_process_thread>>
       ELSE /\ p_buttons' = [p_buttons EXCEPT !.btn_process = FALSE,
                                              !.btn_process_text = "processing"]
            /\ \E params \in ProcessingParamChoices : \E fail \in AppFailureChoices :
                   p_process_thread' =
                       [data |-> p_raw_data.rows,
                        sampling_rate |-> AppSamplingRate,
                        processing_params |-> params,
                        fail |-> fail, ran |-> FALSE, emitted |-> <<>>]
            /\ UNCHANGED p_dialogs
    /\ UNCHANGED <<p_raw_data, p_processed_data, p_current_analysis, p_signals,
                   p_analysis_thread, p_analysis_signals>>
    /\ AppFrame

\* ProcessingThread.run()
ProcessingThreadRuns ==
    /\ p_process_thread # NoCall
    /\ p_process_thread # NoneValue
    /\ ~p_process_thread.ran
    /\ p_process_thread' =
           [p_process_thread EXCEPT
               !.ran = TRUE,
               !.emitted = ProcessingRun(p_process_thread.data,
                                         p_process_thread.sampling_rate,
                                         p_process_thread.processing_params,
                                         p_process_thread.fail)]
    /\ p_signals' = p_signals \o p_process_thread'.emitted
    /\ UNCHANGED <<p_analysis_thread, p_analysis_signals, p_runs>>
    /\ UNCHANGED appVars
    /\ AppFrame

\* on_processing_info(info_msg)
OnProcessingInfo ==
    /\ p_signals # <<>>
    /\ Head(p_signals).signal = "info"
    /\ p_signals' = Tail(p_signals)
    /\ UNCHANGED <<p_process_thread, p_analysis_thread, p_analysis_signals, p_runs>>
    /\ UNCHANGED appVars
    /\ AppFrame

\* on_processing_complete(processed_data)
OnProcessingComplete ==
    /\ p_signals # <<>>
    /\ Head(p_signals).signal = "result"
    /\ p_signals' = Tail(p_signals)
    /\ SetApp(on_processing_complete(AppState, Head(p_signals).value))
    /\ UNCHANGED <<p_raw_data, p_process_thread, p_analysis_thread,
                   p_analysis_signals, p_runs>>
    /\ AppFrame

\* on_processing_error(error_msg)
OnProcessingError ==
    /\ p_signals # <<>>
    /\ Head(p_signals).signal = "error"
    /\ p_signals' = Tail(p_signals)
    /\ SetApp(on_processing_error(AppState, Head(p_signals).value))
    /\ UNCHANGED <<p_raw_data, p_process_thread, p_analysis_thread,
                   p_analysis_signals, p_runs>>
    /\ AppFrame

\* analyze_rhythms(): the button is pressed
AnalyzeRhythms ==
    /\ p_runs # NoCall
    /\ p_buttons.btn_analyze
    /\ p_runs.analyze < MaxAnalysisRuns
    /\ p_runs' = [p_runs EXCEPT !.analyze = @ + 1]
    /\ IF p_processed_data = NoneValue
       THEN /\ p_dialogs' = Append(p_dialogs, <<"warning", "process data first">>)
            /\ UNCHANGED <<p_buttons, p_analysis_thread>>
       ELSE /\ p_buttons' = [p_buttons EXCEPT !.btn_analyze = FALSE,
                                              !.btn_analyze_text = "analysis",
                                              !.btn_analyze_single = FALSE]
            /\ \E fails \in BOOLEAN :
                   p_analysis_thread' =
                       [data |-> p_processed_data.rows, channel_idx |-> 0,
                        fails |-> fails, ran |-> FALSE]
            /\ UNCHANGED p_dialogs
    /\ UNCHANGED <<p_raw_data, p_processed_data, p_current_analysis, p_signals,
                   p_process_thread, p_analysis_signals>>
    /\ AppFrame

\* AnalysisThread.run()
AnalysisThreadRuns ==
    /\ p_analysis_thread # NoCall
    /\ p_analysis_thread # NoneValue
    /\ ~p_analysis_thread.ran
    /\ p_analysis_thread' = [p_analysis_thread EXCEPT !.ran = TRUE]
    /\ p_analysis_signals' =
           p_analysis_signals \o AnalysisRun(p_analysis_thread.data,
                                             p_analysis_thread.channel_idx,
                                             p_analysis_thread.fails)
    /\ UNCHANGED <<p_process_thread, p_signals, p_runs>>
    /\ UNCHANGED appVars
    /\ AppFrame

\* on_analysis_info(info_msg)
OnAnalysisInfo ==
    /\ p_analysis_signals # <<>>
    /\ Head(p_analysis_signals).signal = "info"
    /\ p_analysis_signals' = Tail(p_analysis_signals)
    /\ UNCHANGED <<p_process_thread, p_analysis_thread, p_signals, p_runs>>
    /\ UNCHANGED appVars
    /\ AppFrame

\* on_analysis_complete(result)
OnAnalysisComplete ==
    /\ p_analysis_signals # <<>>
    /\ Head(p_analysis_signals).signal = "result"
    /\ p_analysis_signals' = Tail(p_analysis_signals)
    /\ SetApp(on_analysis_complete(AppState, Head(p_analysis_signals).value))
    /\ UNCHANGED <<p_raw_data, p_process_thread, p_analysis_thread, p_signals,
                   p_runs>>
    /\ AppFrame

\* on_analysis_error(error_msg)
OnAnalysisError ==
    /\ p_analysis_signals # <<>>
    /\ Head(p_analysis_signals).signal = "error"
    /\ p_analysis_signals' = Tail(p_analysis_signals)
    /\ SetApp(on_analysis_error(AppState, Head(p_analysis_signals).value))
    /\ UNCHANGED <<p_raw_data, p_process_thread, p_analysis_thread, p_signals,
                   p_runs>>
    /\ AppFrame

NextApp ==
    \/ OnDataLoaded
    \/ ProcessData
    \/ ProcessingThreadRuns
    \/ OnProcessingInfo
    \/ OnProcessingComplete
    \/ OnProcessingError
    \/ AnalyzeRhythms
    \/ AnalysisThreadRuns
    \/ OnAnalysisInfo
    \/ OnAnalysisComplete
    \/ OnAnalysisError

\* The application with the two other sources of raw data.
NextAppData ==
    \/ NextApp
    \/ GenerateTestData
    \/ UseRecordedData

---------------------------------------------------------------------------
(* One run of a ProcessingThread (gui/threads.py) on its own: the thread   *)
(* as its constructor left it, then run().                                 *)

\* The filter settings a thread can be given, in the units of the filter
\* model: the defaults, and settings the validator has to correct.
WorkerFilterChoices ==
    {[sampling_rate |-> mHz(250000), low_freq |-> mHz(1000),
      high_freq |-> mHz(40000), notch_freq |-> mHz(50000)],
     [sampling_rate |-> mHz(50000), low_freq |-> mHz(30000),
      high_freq |-> mHz(100000), notch_freq |-> mHz(0)]}

\* The failures of a run over n channels: none, or one stage raising.
WorkerFailures(n) ==
    FailureChoices \cup {[NoFailure EXCEPT !.notch = {n - 1}]}

IdleWorker ==
    /\ t_args = NoCall
    /\ t_ret = NoCall

\* ProcessingThread(preprocessor, data, sampling_rate, processing_params)
InitWorker ==
    /\ \E n \in 1..MaxChannels : \E filters \in WorkerFilterChoices :
       \E flags \in [{"detrend", "remove_dc", "remove_artifacts"} -> BOOLEAN] :
       \E fail \in WorkerFailures(n) :
           t_args = [data |-> RawData(n),
                     sampling_rate |-> filters.sampling_rate,
                     processing_params |->
                         [low_freq |-> filters.low_freq,
                          high_freq |-> filters.high_freq,
                          notch_freq |-> filters.notch_freq,
                          detrend |-> flags["detrend"],
                          remove_dc |-> flags["remove_dc"],
                          remove_artifacts |-> flags["remove_artifacts"]],
                     fail |-> fail]
    /\ t_ret = NoCall

\* thread.run(): the signals it emits, in order
RunProcessingThread ==
    /\ t_args # NoCall
    /\ t_ret = NoCall
    /\ t_ret' = [emitted |-> ProcessingRun(t_args.data, t_args.sampling_rate,
                                           t_args.processing_params, t_args.fail)]
    /\ UNCHANGED t_args
    /\ WorkerFrame

NextWorker == RunProcessingThread

---------------------------------------------------------------------------
(* RealtimeDataBuffer (realtime_work/realtime_controller.py).              *)
(*                                                                         *)
(* Timestamps and durations are whole seconds.  A buffered value is the    *)
(* fraction <<numerator, denominator>>: normalising an ADC reading raw     *)
(* gives raw * 5 / 1023.  A sample is [timestamp, amplitudes].             *)

\* if 0 <= raw_value <= 1023: (raw_value / 1023.0) * 5.0, else raw_value
normalize_arduino(raw_value) ==
    IF 0 <= raw_value /\ raw_value <= 1023
    THEN <<raw_value * 5, 1023>>
    ELSE <<raw_value, 1>>

FractionLess(a, b) == a[1] * b[2] < b[1] * a[2]

\* The value add_batch stores for a sample.
SampleValue(sample, normalize) ==
    IF sample.amplitudes = <<>> THEN <<0, 1>>
    ELSE IF normalize THEN normalize_arduino(sample.amplitudes[1])
    ELSE <<sample.amplitudes[1], 1>>

\* The loop of add_batch over batch.samples, from sample i on.
RECURSIVE AppendSamples(_, _, _, _)
AppendSamples(buffer, samples, normalize, i) ==
    IF i > Len(samples) THEN buffer
    ELSE AppendSamples(
             [timestamps |-> Append(buffer.timestamps, samples[i].timestamp),
              data |-> Append(buffer.data, SampleValue(samples[i], normalize)),
              global_min |->
                  IF samples[i].amplitudes = <<>> THEN buffer.global_min
                  ELSE IF buffer.global_min = NoneValue
                          \/ FractionLess(SampleValue(samples[i], normalize),
                                          buffer.global_min.value)
                       THEN [kind |-> "float",
                             value |-> SampleValue(samples[i], normalize)]
                       ELSE buffer.global_min,
              global_max |->
                  IF samples[i].amplitudes = <<>> THEN buffer.global_max
                  ELSE IF buffer.global_max = NoneValue
                          \/ FractionLess(buffer.global_max.value,
                                          SampleValue(samples[i], normalize))
                       THEN [kind |-> "float",
                             value |-> SampleValue(samples[i], normalize)]
                       ELSE buffer.global_max],
             samples, normalize, i + 1)

\* A clean-up that keeps everything.
KeepEverything(timestamps, cutoff_time, i) == 0

\* for i, timestamp in enumerate(self.timestamps):
\*     if timestamp >= cutoff_time: keep_from_index = i; break
\* The 0-based index, 0 when no timestamp reaches the cut-off.
RECURSIVE KeepFromIndex(_, _, _)
KeepFromIndex(timestamps, cutoff_time, i) ==
    IF i >= Len(timestamps) THEN 0
    ELSE IF timestamps[i + 1] >= cutoff_time THEN i
    ELSE KeepFromIndex(timestamps, cutoff_time, i + 1)

DropFirst(seq, n) == SubSeq(seq, n + 1, Len(seq))

_cleanup_old_data(buffer, max_duration) ==
    IF buffer.timestamps = <<>> THEN buffer
    ELSE [buffer EXCEPT
             !.timestamps =
                 DropFirst(@, KeepFromIndex(
                                  buffer.timestamps,
                                  buffer.timestamps[Len(buffer.timestamps)]
                                      - max_duration, 0)),
             !.data =
                 DropFirst(@, KeepFromIndex(
                                  buffer.timestamps,
                                  buffer.timestamps[Len(buffer.timestamps)]
                                      - max_duration, 0))]

add_batch(buffer, samples, max_duration, normalize) ==
    IF samples = <<>> THEN buffer
    ELSE _cleanup_old_data(AppendSamples(buffer, samples, normalize, 1),
                           max_duration)

\* A window that leaves out the sample on its edge.
InWindowStrict(timestamp, start_time) == timestamp > start_time

\* if timestamp >= start_time
InWindow(timestamp, start_time) == timestamp >= start_time

\* The loop of get_data_for_plotting, from the 0-based index i on.
RECURSIVE WindowLoop(_, _, _, _, _)
WindowLoop(buffer, start_time, i, window_timestamps, window_data) ==
    IF i >= Len(buffer.timestamps)
    THEN <<window_timestamps, <<window_data>>>>
    ELSE IF InWindow(buffer.timestamps[i + 1], start_time)
         THEN WindowLoop(buffer, start_time, i + 1,
                         Append(window_timestamps, buffer.timestamps[i + 1]),
                         Append(window_data, buffer.data[i + 1]))
         ELSE WindowLoop(buffer, start_time, i + 1, window_timestamps, window_data)

get_data_for_plotting(buffer, window_seconds) ==
    IF buffer.timestamps = <<>> THEN <<<<>>, <<<<>>>>>>
    ELSE WindowLoop(buffer,
                    buffer.timestamps[Len(buffer.timestamps)] - window_seconds,
                    0, <<>>, <<>>)

\* if self.global_min is None or self.global_max is None: return -100.0, 100.0
get_extrema(buffer) ==
    IF buffer.global_min = NoneValue \/ buffer.global_max = NoneValue
    THEN <<<<-100, 1>>, <<100, 1>>>>
    ELSE <<buffer.global_min.value, buffer.global_max.value>>

\* The buffer after clear().
clear(buffer) ==
    [timestamps |-> <<>>, data |-> <<>>,
     global_min |-> NoneValue, global_max |-> NoneValue]

MaxAdds == 2

MaxDurationChoices == {0, 2}
WindowChoices == {0, 1, 3}
TimestampChoices == 0..3
BatchLenChoices == {0, 1, 2}

\* The samples a source can deliver: a reading at each time, the last one
\* outside the ADC's range, and a sample without amplitudes.
ReadingAt(t) == IF t < 3 THEN 100 * t + 12 ELSE 2000
BufferSampleChoices ==
    {[timestamp |-> t, amplitudes |-> <<ReadingAt(t)>>] : t \in TimestampChoices}
        \cup {[timestamp |-> 1, amplitudes |-> <<>>]}

\* The batches a source can deliver.
Batches == UNION {[1..n -> BufferSampleChoices] : n \in BatchLenChoices}

NonDecreasing(timestamps) ==
    \A i \in 1..(Len(timestamps) - 1) : timestamps[i] <= timestamps[i + 1]

BatchTimestamps(samples) == [i \in 1..Len(samples) |-> samples[i].timestamp]

IdleBuffer ==
    /\ b_cfg = NoCall
    /\ b_buffer = NoCall
    /\ b_ret = NoCall
    /\ b_calls = NoCall

\* RealtimeDataBuffer(max_duration_seconds, normalize_arduino_data); ordered
\* says whether the source delivers its samples in the order of their time.
InitBuffer ==
    /\ b_cfg \in [max_duration : MaxDurationChoices, normalize : BOOLEAN,
                  ordered : BOOLEAN]
    /\ b_buffer = [timestamps |-> <<>>, data |-> <<>>,
                   global_min |-> NoneValue, global_max |-> NoneValue]
    /\ b_ret = NoCall
    /\ b_calls = [add_batch |-> 0]

\* buffer.add_batch(batch)
AddBatch ==
    /\ b_cfg # NoCall
    /\ b_calls.add_batch < MaxAdds
    /\ \E samples \in Batches :
          /\ b_cfg.ordered => NonDecreasing(b_buffer.timestamps
                                            \o BatchTimestamps(samples))
          /\ b_buffer' = add_batch(b_buffer, samples, b_cfg.max_duration,
                                   b_cfg.normalize)
          /\ b_ret' = [call |-> "add_batch", samples |-> samples]
    /\ b_calls' = [b_calls EXCEPT !.add_batch = @ + 1]
    /\ UNCHANGED b_cfg
    /\ BufferFrame

\* buffer.get_data_for_plotting(window_seconds)
GetDataForPlotting ==
    /\ b_cfg # NoCall
    /\ \E window_seconds \in WindowChoices :
           b_ret' = [call |-> "get_data_for_plotting",
                     window_seconds |-> window_seconds,
                     value |-> get_data_for_plotting(b_buffer, window_seconds)]
    /\ UNCHANGED <<b_cfg, b_buffer, b_calls>>
    /\ BufferFrame

\* buffer.get_extrema()
GetExtrema ==
    /\ b_cfg # NoCall
    /\ b_ret' = [call |-> "get_extrema", value |-> get_extrema(b_buffer)]
    /\ UNCHANGED <<b_cfg, b_buffer, b_calls>>
    /\ BufferFrame

\* buffer.clear()
Clear ==
    /\ b_cfg # NoCall
    /\ b_buffer' = clear(b_buffer)
    /\ b_ret' = [call |-> "clear"]
    /\ UNCHANGED <<b_cfg, b_calls>>
    /\ BufferFrame

NextBuffer ==
    \/ AddBatch
    \/ GetDataForPlotting
    \/ GetExtrema
    \/ Clear

---------------------------------------------------------------------------
(* VisualizationMethods._generate_medical_alerts (app/visualization.py).   *)
(*                                                                         *)
(* Relative powers are hundredths.  The text returned is the sequence of   *)
(* its parts: "header", the alerts, then "important" after alerts or       *)
(* "no deviations" when there is none.                                     *)

\* rhythm_analysis.get(band, {}).get('relative_power', 0)
RelativePowerOrZero(rhythm_analysis, band) ==
    IF band \notin DOMAIN rhythm_analysis THEN 0
    ELSE IF "relative_power" \notin DOMAIN rhythm_analysis[band] THEN 0
    ELSE rhythm_analysis[band].relative_power

AlertIf(condition, alert) == IF condition THEN <<alert>> ELSE <<>>

\* if 'spike_count' in analysis and analysis['spike_count'] > 10
SpikeAlert(analysis) ==
    AlertIf("spike_count" \in DOMAIN analysis /\ analysis.spike_count > 10,
            "spikes")

\* A cascade that stops at the first alert.
AlertsFirstOnly(delta_power, theta_power, alpha_power, beta_power, analysis) ==
    IF delta_power > 40 THEN <<"delta">>
    ELSE IF beta_power > 40 THEN <<"beta">>
    ELSE IF alpha_power < 5 /\ beta_power > 30 THEN <<"stress">>
    ELSE IF theta_power > 30 /\ delta_power < 10 THEN <<"drowsiness">>
    ELSE SpikeAlert(analysis)

\* The five if statements, each appending its alert.
Alerts(delta_power, theta_power, alpha_power, beta_power, analysis) ==
    AlertIf(delta_power > 40, "delta")
        \o AlertIf(beta_power > 40, "beta")
        \o AlertIf(alpha_power < 5 /\ beta_power > 30, "stress")
        \o AlertIf(theta_power > 30 /\ delta_power < 10, "drowsiness")
        \o SpikeAlert(analysis)

\* if alerts: ... else: ...
AlertText(alerts) ==
    IF alerts # <<>> THEN <<"header">> \o alerts \o <<"important">>
    ELSE <<"header", "no deviations">>

_generate_medical_alerts(analysis) ==
    IF "rhythm_analysis" \notin DOMAIN analysis THEN <<"header">>
    ELSE AlertText(Alerts(RelativePowerOrZero(analysis.rhythm_analysis, "delta"),
                          RelativePowerOrZero(analysis.rhythm_analysis, "theta"),
                          RelativePowerOrZero(analysis.rhythm_analysis, "alpha"),
                          RelativePowerOrZero(analysis.rhythm_analysis, "beta"),
                          analysis))

\* What an entry of rhythm_analysis can be: absent, a dict without
\* relative_power, or a relative power around the thresholds.
AlertPowerChoices == {4, 5, 10, 30, 31, 40, 41}
AlertEntryChoices ==
    {[entry |-> "absent", relative_power |-> 0],
     [entry |-> "no power", relative_power |-> 0]}
        \cup {[entry |-> "power", relative_power |-> p] : p \in AlertPowerChoices}
AlertBands == {"delta", "theta", "alpha", "beta"}
SpikeCountChoices ==
    {[present |-> FALSE, spike_count |-> 0], [present |-> TRUE, spike_count |-> 10],
     [present |-> TRUE, spike_count |-> 11]}

EmptyDict == [k \in {} |-> 0]

\* The rhythm_analysis dict with the entries of the choice.
RhythmAnalysisOf(entries) ==
    [band \in {b \in AlertBands : entries[b].entry # "absent"} |->
        IF entries[band].entry = "no power" THEN EmptyDict
        ELSE [relative_power |-> entries[band].relative_power]]

\* The analysis dict: with or without rhythm_analysis and spike_count.
AnalysisOf(has_rhythms, entries, spikes) ==
    (IF has_rhythms THEN [rhythm_analysis |-> RhythmAnalysisOf(entries)]
     ELSE EmptyDict)
    @@ (IF spikes.present THEN [spike_count |-> spikes.spike_count] ELSE EmptyDict)

IdleAlerts ==
    /\ m_args = NoCall
    /\ m_ret = NoCall

InitAlerts ==
    /\ \E has_rhythms \in BOOLEAN : \E entries \in [AlertBands -> AlertEntryChoices] :
       \E spike_count \in SpikeCountChoices :
           m_args = [analysis |-> AnalysisOf(has_rhythms, entries, spike_count)]
    /\ m_ret = NoCall

\* self._generate_medical_alerts(analysis)
GenerateMedicalAlerts ==
    /\ m_args # NoCall
    /\ m_ret = NoCall
    /\ m_ret' = [text |-> _generate_medical_alerts(m_args.analysis)]
    /\ UNCHANGED m_args
    /\ AlertsFrame

NextAlerts == GenerateMedicalAlerts

---------------------------------------------------------------------------
(* FilterValidator.validate_notch_params, called on its own and then on    *)
(* the frequency it returned.                                              *)

\* The notch frequencies (millihertz) the calls are drawn from: negative,
\* zero, tiny, mains, 0.999 of Nyquist at 50 Hz and just above it, at and
\* above Nyquist.
NotchFreqChoices ==
    {-1000, 0, 1, 10, 400, 20000, 24975, 24990, 25000, 50000, 60000, 124900,
     125000, 200000}

IdleNotch ==
    /\ n_args = NoCall
    /\ n_first = NoCall
    /\ n_second = NoCall

InitNotch ==
    /\ n_args \in [notch_freq : {mHz(f) : f \in NotchFreqChoices},
                   sampling_rate : {mHz(1000 * r) : r \in RateChoices}]
    /\ n_first = NoCall
    /\ n_second = NoCall

\* notch, warnings = validate_notch_params(notch_freq, sampling_rate)
ValidateNotch ==
    /\ n_args # NoCall
    /\ n_first = NoCall
    /\ n_first' = validate_notch_params(n_args.notch_freq, n_args.sampling_rate)
    /\ UNCHANGED <<n_args, n_second>>
    /\ NotchFrame

\* The same call on the frequency the first call returned.
ValidateNotchAgain ==
    /\ n_first # NoCall
    /\ n_second = NoCall
    /\ n_second' = validate_notch_params(n_first.notch, n_args.sampling_rate)
    /\ UNCHANGED <<n_args, n_first>>
    /\ NotchFrame

NextNotch ==
    \/ ValidateNotch
    \/ ValidateNotchAgain

---------------------------------------------------------------------------
(* Specifications: one per component.  The calls of a component are drawn  *)
(* in its Init; the variables of the other components stay idle.           *)

InitFor(c) ==
    /\ IF c = "validator" THEN InitValidator ELSE IdleValidator
    /\ IF c = "filters" THEN InitFilters ELSE IdleFilters
    /\ IF c = "artifacts" THEN InitArtifacts ELSE IdleArtifacts
    /\ IF c = "spectral" THEN InitSpectral ELSE IdleSpectral
    /\ IF c = "rules" THEN InitRules ELSE IdleRules
    /\ IF c = "coherence" THEN InitCoherence ELSE IdleCoherence
    /\ IF c = "spikes" THEN InitSpikes ELSE IdleSpikes
    /\ IF c = "realtime" THEN InitRealtime ELSE IdleRealtime
    /\ IF c = "app" THEN InitApp ELSE IdleApp
    /\ IF c = "worker" THEN InitWorker ELSE IdleWorker
    /\ IF c = "buffer" THEN InitBuffer ELSE IdleBuffer
    /\ IF c = "alerts" THEN InitAlerts ELSE IdleAlerts
    /\ IF c = "notch" THEN InitNotch ELSE IdleNotch

SpecValidator == InitFor("validator") /\ [][NextValidator]_vars
SpecFilters == InitFor("filters") /\ [][NextFilters]_vars
SpecArtifacts == InitFor("artifacts") /\ [][NextArtifacts]_vars
SpecSpectral == InitFor("spectral") /\ [][NextSpectral]_vars
SpecRules == InitFor("rules") /\ [][NextRules]_vars
SpecCoherence == InitFor("coherence") /\ [][NextCoherence]_vars
SpecSpikes == InitFor("spikes") /\ [][NextSpikes]_vars
SpecRealtime == InitFor("realtime") /\ [][NextRealtime]_vars
SpecApp == InitFor("app") /\ [][NextApp]_vars
SpecWorker == InitFor("worker") /\ [][NextWorker]_vars
SpecBuffer == InitFor("buffer") /\ [][NextBuffer]_vars
SpecAlerts == InitFor("alerts") /\ [][NextAlerts]_vars
SpecNotch == InitFor("notch") /\ [][NextNotch]_vars

\* The producer thread is scheduled, and the synthetic driver yields after
\* each sleep; whether a serial device sends is up to the device.
SpecRealtimeFair ==
    /\ SpecRealtime
    /\ WF_vars(ProducerStep)
    /\ WF_vars(SyntheticYields)

\* The application with every source of raw data.
SpecAppData == InitFor("app") /\ [][NextAppData]_vars

---------------------------------------------------------------------------
(* The properties of the specification.                                    *)

\* C1: for every sampling_rate > 0 and every input pair, the pair returned by
\* validate_bandpass_params satisfies 0 < low < high < sampling_rate / 2.
C1_NyquistSafety ==
    v_first # NoCall =>
        /\ 0 < v_first.low
        /\ v_first.low < v_first.high
        /\ v_first.high < v_args.sampling_rate \div 2

\* C2: validating the returned pair a second time returns the same pair and
\* no warning: every output is a fixed point.
C2_FixedPoint ==
    v_second # NoCall =>
        /\ v_second.low = v_first.low
        /\ v_second.high = v_first.high
        /\ v_second.warnings = <<>>

\* C3: get_rhythm_recommendations on a rhythm_analysis that lacks any subset
\* of the five bands returns without raising, and rhythm_details holds exactly
\* the bands of the input.
C3_TotalOverMissingBands ==
    (r_ret # NoCall /\ r_args.call = "get_rhythm_recommendations") =>
        /\ r_ret.kind = "return"
        /\ DOMAIN r_ret.value.rhythm_details
               = DOMAIN r_args.analysis_result.rhythm_analysis

\* C4: apply_filters called with notch_freq <= 0 returns the band-pass output:
\* no notch filter is applied to any channel.
C4_NotchOnlyWhenPositive ==
    (f_ret # NoCall /\ f_ret.call = "apply_filters" /\ f_ret.kind = "return"
     /\ f_args.notch_freq <= 0) =>
        \A i \in 1..Len(f_ret.value) :
            /\ Len(f_ret.value[i].stages) = 1
            /\ f_ret.value[i].stages[1][1] = "bandpass"

SumBands(by_band) ==
    by_band["delta"] + by_band["theta"] + by_band["alpha"] + by_band["beta"]
    + by_band["gamma"]

\* C5: the five rhythm_power values of calculate_spectral_power sum to at most
\* total_power: no bin's power is counted in more than one band.
C5_BandsWithinTotal ==
    s_ret # NoCall => SumBands(s_ret.rhythm_power) <= s_ret.total_power

PowerWhere(at(_)) ==
    SumSeq([k \in 1..Len(s_args.power_spectrum) |->
               IF at(k) THEN s_args.power_spectrum[k] ELSE 0])

\* bin k lies in 0.5 .. 100 Hz; bin k lies at 4, 8, 13 or 30 Hz
C6_InRange(k) ==
    /\ 2 * k * s_args.sampling_rate >= s_args.n
    /\ k * s_args.sampling_rate <= 100 * s_args.n
C6_SharedEdge(k) ==
    \E hz \in {4, 8, 13, 30} : k * s_args.sampling_rate = hz * s_args.n

C7_FewChannelsValueError ==
    (c_ret # NoCall /\ (c_args.data.ndim = 1 \/ c_args.data.rows < 2)) =>
        c_ret.kind = "ValueError"

\* The normal ranges as the specification lists them, in hundredths.
C8_Low(band) ==
    CASE band = "delta" -> 5 [] band = "theta" -> 5 [] band = "alpha" -> 10
      [] band = "beta" -> 15 [] band = "gamma" -> 5
C8_High(band) ==
    CASE band = "delta" -> 25 [] band = "theta" -> 15 [] band = "alpha" -> 30
      [] band = "beta" -> 25 [] band = "gamma" -> 15

\* C8: analyze_rhythm_state(band, p) is LOW iff p < low(band), HIGH iff
\* p > high(band) and NORMAL otherwise (so at p = low and at p = high), and
\* the recommendation text is the band's text of the table of that state.
C8_StateBoundaries ==
    (r_ret # NoCall /\ r_args.call = "analyze_rhythm_state") =>
        /\ r_ret.kind = "return"
        /\ r_ret.value.state = "LOW"
               <=> r_args.relative_power < C8_Low(r_args.rhythm)
        /\ r_ret.value.state = "HIGH"
               <=> r_args.relative_power > C8_High(r_args.rhythm)
        /\ r_ret.value.state = "NORMAL"
               <=> /\ r_args.relative_power >= C8_Low(r_args.rhythm)
                   /\ r_args.relative_power <= C8_High(r_args.rhythm)
        /\ r_ret.value.recommendation =
               << CASE r_ret.value.state = "LOW" -> "low_power"
                    [] r_ret.value.state = "HIGH" -> "high_power"
                    [] r_ret.value.state = "NORMAL" -> "normal",
                  r_args.rhythm >>

\* C8, witness: a relative power exactly at a band's upper bound has been
\* classified.
C8_Witness ==
    /\ r_ret # NoCall
    /\ r_args.call = "analyze_rhythm_state"
    /\ r_args.relative_power = C8_High(r_args.rhythm)
    /\ r_ret.value.state = "NORMAL"

\* The filter and the failing channels of a direct call of one stage.
C9_Filter == IF f_ret.call = "bandpass_filter" THEN "bandpass" ELSE "notch"
C9_Fails == IF f_ret.call = "bandpass_filter" THEN f_fail.bandpass ELSE f_fail.notch

\* C9: bandpass_filter and notch_filter either return an array in which every
\* channel is the filtered channel of the input, or raise ValueError and
\* return nothing; when filtfilt fails on a channel the error names the first
\* such channel; the caller's array is as it was.
C9_StageAtomic ==
    (f_ret # NoCall /\ f_ret.call \in {"bandpass_filter", "notch_filter"}) =>
        /\ f_data = RawData(Len(f_data))
        /\ f_ret.kind \in {"return", "ValueError"}
        /\ f_ret.kind = "return" =>
              /\ C9_Fails = {}
              /\ Len(f_ret.value) = Len(f_data)
              /\ \A i \in 1..Len(f_data) :
                    /\ f_ret.value[i].id = f_data[i].id
                    /\ Len(f_ret.value[i].stages) = 1
                    /\ f_ret.value[i].stages[1][1] = C9_Filter
        /\ f_ret.kind = "ValueError" =>
              /\ f_ret.value = <<>>
              /\ f_ret.error = "apply" =>
                    /\ f_ret.channel \in C9_Fails
                    /\ \A j \in C9_Fails : f_ret.channel <= j

\* C9, witness: filtfilt failed on the second channel after the first one had
\* been filtered, and the stage raised naming channel 1.
C9_Witness ==
    /\ f_ret # NoCall
    /\ f_ret.call \in {"bandpass_filter", "notch_filter"}
    /\ f_ret.kind = "ValueError"
    /\ f_ret.error = "apply"
    /\ f_ret.channel = 1

\* |x - mean| > threshold * std for sample i of a channel, by the sums.
C10_IsOutlier(ch, i, t) ==
    t[2] * t[2] * (Len(ch) * ch[i] - SumSeq(ch)) * (Len(ch) * ch[i] - SumSeq(ch))
    > t[1] * t[1] * (Len(ch) * SumSquares(ch) - SumSeq(ch) * SumSeq(ch))

C10_Kept(ch, t) == {k \in 1..Len(ch) : ~C10_IsOutlier(ch, k, t)}

\* Sample i of the output is what the specification says of sample i of the input:
\* itself if kept; on the line through the nearest kept samples on either
\* side if there is one on either side; else the nearest kept sample.
C10_SampleOk(ch, out, i, t) ==
    IF i \in C10_Kept(ch, t) THEN out[i] = ch[i]
    ELSE IF {k \in C10_Kept(ch, t) : k < i} = {}
         THEN \E b \in C10_Kept(ch, t) :
                 /\ \A k \in C10_Kept(ch, t) : b <= k
                 /\ out[i] = ch[b]
    ELSE IF {k \in C10_Kept(ch, t) : k > i} = {}
         THEN \E a \in C10_Kept(ch, t) :
                 /\ \A k \in C10_Kept(ch, t) : k <= a
                 /\ out[i] = ch[a]
    ELSE \E a \in C10_Kept(ch, t), b \in C10_Kept(ch, t) :
            /\ a < i /\ i < b
            /\ \A k \in C10_Kept(ch, t) : k <= a \/ k >= b
            /\ (out[i] - ch[a]) * (b - a) = (ch[b] - ch[a]) * (i - a)

\* C10: a call of remove_artifacts that returns leaves every sample within
\* threshold * std of its channel's mean unchanged and puts each outlier on
\* the line between the nearest kept samples of its channel (the nearest
\* kept sample at an edge); the call does not modify its input array.
C10_ArtifactFrame ==
    [][(a_ret = NoCall /\ a_ret' # NoCall) =>
          /\ a_data' = a_data
          /\ a_ret'.kind = "return" =>
                /\ Len(a_ret'.value) = Len(a_data)
                /\ \A c \in 1..Len(a_data) :
                      /\ Len(a_ret'.value[c]) = Len(a_data[c])
                      /\ \A i \in 1..Len(a_data[c]) :
                            C10_SampleOk(a_data[c], a_ret'.value[c], i, a_threshold)
      ]_vars

\* C10, witness: a returned array in which an outlier between two kept
\* samples was replaced by a value that is neither of the two.
C10_Witness ==
    /\ a_ret # NoCall
    /\ a_ret.kind = "return"
    /\ \E c \in 1..Len(a_data) : \E i \in 2..(Len(a_data[c]) - 1) :
          /\ C10_IsOutlier(a_data[c], i, a_threshold)
          /\ (i - 1) \in C10_Kept(a_data[c], a_threshold)
          /\ a_ret.value[c][i] # a_data[c][i - 1]
          /\ \A k \in C10_Kept(a_data[c], a_threshold) :
                a_ret.value[c][i] # a_data[c][k]

C11_Returned == d_ret # NoCall /\ d_ret.kind = "return"

\* The supra-threshold local maxima of |x - mean| and the reported spikes, as
\* positions of the signal.
C11_Supra == AboveHeight(d_args.signal_data, d_args.threshold)
C11_Reported == {d_ret.spike_times[i].num + 1 : i \in 1..Len(d_ret.spike_times)}

\* Two positions closer than 0.1 * sampling_rate samples.
C11_Close(p, q) == 10 * Abs(p - q) < d_args.sampling_rate

C11_NoCloseSpikes ==
    \A p, q \in C11_Reported : p # q => ~C11_Close(p, q)

C11_SpacedAreReported ==
    \A p \in C11_Supra :
        (\A q \in C11_Supra : q # p => ~C11_Close(p, q)) => p \in C11_Reported

C11_CountMatches == d_ret.spike_count = Len(d_ret.spike_times)

\* C11: detect_spikes never reports two spikes closer than 0.1 *
\* sampling_rate samples; of two supra-threshold local maxima closer than
\* that exactly one is reported; supra-threshold local maxima spaced at least
\* that far apart are all reported; spike_count is the number of spike_times.
C11_SpikeSpacing ==
    C11_Returned =>
        /\ C11_NoCloseSpikes
        /\ \A p, q \in C11_Supra :
               (p # q /\ C11_Close(p, q)) =>
                   Cardinality({p, q} \cap C11_Reported) = 1
        /\ C11_SpacedAreReported
        /\ C11_CountMatches

\* C11, amended: no two reported spikes are closer than 0.1 * sampling_rate
\* samples; a supra-threshold local maximum goes unreported only when a
\* reported one at least as high lies closer than that, so that of exactly
\* two supra-threshold maxima closer than that exactly one is reported;
\* maxima at least that far from every other one are all reported;
\* spike_count is the number of spike_times.
C11_SpikeSelection ==
    C11_Returned =>
        /\ C11_Reported \subseteq C11_Supra
        /\ C11_NoCloseSpikes
        /\ \A p \in C11_Supra \ C11_Reported :
               \E q \in C11_Reported :
                   /\ C11_Close(p, q)
                   /\ Deviation(d_args.signal_data, q)
                          >= Deviation(d_args.signal_data, p)
        /\ (Cardinality(C11_Supra) = 2 /\ \A p, q \in C11_Supra : C11_Close(p, q))
               => Cardinality(C11_Reported) = 1
        /\ C11_SpacedAreReported
        /\ C11_CountMatches

\* Two supra-threshold maxima of different height 200 ms apart at 30 Hz and a
\* third one closer than 100 ms to one of them: the lower of the close pair is
\* dropped, the other two are reported.
C11_Witness ==
    /\ C11_Returned
    /\ Cardinality(C11_Supra) = 3
    /\ Cardinality(C11_Reported) = 2
    /\ \E p \in C11_Supra \ C11_Reported : \E q \in C11_Reported :
           /\ C11_Close(p, q)
           /\ Deviation(d_args.signal_data, q) > Deviation(d_args.signal_data, p)

C12_QueueBounded == Len(k_queue) <= maxsize

\* The producer thread leaves the statement it is at.
C12_Leaves(pc) == k_pc = pc /\ k_pc' # pc

\* Taking the oldest batch off the queue on the way to the second put.
C12_DropsOldest ==
    /\ k_queue # <<>>
    /\ k_queue' = Tail(k_queue)
    /\ k_dropped' = Append(k_dropped, Head(k_queue))
    /\ k_pc' = "full_put"
    /\ k_batch' = k_batch

\* A completed batch leaves the producer's hands only into the queue, and
\* whatever is dropped is older than the batch in hand.
C12_NewestKept ==
    /\ (k_batch # <<>> /\ k_batch' = <<>> /\ k_calls' = k_calls)
           => k_queue' = Append(k_queue, k_batch)
    /\ k_dropped' # k_dropped =>
           \A i \in 1..Len(Head(k_queue)) : \A j \in 1..Len(k_batch) :
               Head(k_queue)[i] < k_batch[j]

C13_StopRequested == k_thread = "alive" /\ ~k_running

\* C13: after stop() on a running controller the producer thread eventually
\* observes the cleared flag, leaves the acquisition loop and closes the
\* driver, whatever the driver does.
C13_StopLeadsToClose ==
    C13_StopRequested ~> (k_thread = "dead" /\ k_driver = "closed")

\* The number of "stopped" status signals emitted so far.
C14_StoppedSignals == Len(SelectSeq(k_status, LAMBDA x : x = "stopped"))

\* C14: a stop() issued while the controller is not running changes no state
\* and emits no status signal, so that stop(); stop() leaves what a single
\* stop() leaves.
C14_StopIdempotent ==
    [][(k_calls'.stop = k_calls.stop + 1 /\ ~k_running) =>
          UNCHANGED <<k_cfg, k_running, k_timer, k_thread, k_pc, k_batch, k_queue,
                      k_driver, k_main, k_processed, k_status, k_errors,
                      k_delivered, k_dropped, k_yielded, k_stats>>]_vars

\* A second stop() has returned after the first one stopped the controller:
\* one "stopped" signal for two calls.
C14_Witness ==
    /\ k_cfg # NoCall
    /\ k_calls.stop = 2
    /\ k_calls.start = 1
    /\ k_main = "idle"
    /\ ~k_running
    /\ C14_StoppedSignals = 1

(***************************************************************************)
(* C15: a worker run that ends in an error leaves the stored results as    *)
(* they were.  The slot on_processing_error changes neither processed_data *)
(* nor current_analysis, the slot on_analysis_error does not change        *)
(* current_analysis; each only re-enables its buttons and shows one error  *)
(* message.  Starting a worker and running it change no stored result      *)
(* either.                                                                 *)
(***************************************************************************)
C15_ProcessingErrorHandled ==
    /\ p_signals # <<>>
    /\ Head(p_signals).signal = "error"
    /\ p_signals' = Tail(p_signals)

C15_AnalysisErrorHandled ==
    /\ p_analysis_signals # <<>>
    /\ Head(p_analysis_signals).signal = "error"
    /\ p_analysis_signals' = Tail(p_analysis_signals)

C15_WorkerStep ==
    \/ p_process_thread' # p_process_thread
    \/ p_analysis_thread' # p_analysis_thread

C15_ResultsKept == UNCHANGED <<p_raw_data, p_processed_data, p_current_analysis>>

C15_ErrorLeavesResults ==
    [][/\ C15_ProcessingErrorHandled =>
            /\ C15_ResultsKept
            /\ p_buttons' = [p_buttons EXCEPT !.btn_process = TRUE,
                                              !.btn_process_text = "process"]
            /\ Len(p_dialogs') = Len(p_dialogs) + 1
            /\ p_dialogs'[Len(p_dialogs')][1] = "processing error"
       /\ C15_AnalysisErrorHandled =>
            /\ C15_ResultsKept
            /\ p_buttons' = [p_buttons EXCEPT
                                !.btn_analyze = TRUE,
                                !.btn_analyze_text = "analyze",
                                !.btn_analyze_single = TRUE,
                                !.btn_analyze_single_text = "analyze single"]
            /\ Len(p_dialogs') = Len(p_dialogs) + 1
            /\ p_dialogs'[Len(p_dialogs')][1] = "analysis error"
       /\ C15_WorkerStep => C15_ResultsKept]_vars

\* A second processing run failed after a first one had stored its result.
C15_Witness ==
    /\ p_runs # NoCall
    /\ p_runs.process = 2
    /\ p_signals = <<>>
    /\ p_processed_data # NoneValue
    /\ p_dialogs # <<>>
    /\ p_dialogs[Len(p_dialogs)][1] = "processing error"
    /\ p_buttons.btn_process

(***************************************************************************)
(* C18: a ProcessingThread run applies band-pass, notch, detrend, DC       *)
(* removal and artifact removal in this order; the last three run iff      *)
(* their flag is set; every stage works on the output of the stage before  *)
(* it; the run emits exactly one of result_signal and error_signal, the    *)
(* result after all enabled stages.                                        *)
(***************************************************************************)
C18_Ran == t_ret # NoCall

C18_Flagged(stage) ==
    IF t_args.processing_params[stage] THEN <<stage>> ELSE <<>>

\* The optional stages the settings ask for, in the fixed order.
C18_Optional ==
    C18_Flagged("detrend") \o C18_Flagged("remove_dc")
        \o C18_Flagged("remove_artifacts")

\* apply_filters raises: scipy fails on a channel, or no filter can be
\* designed from the settings.
C18_FiltersRaise ==
    apply_filters(t_args.data, t_args.sampling_rate,
                  t_args.processing_params.low_freq,
                  t_args.processing_params.high_freq,
                  t_args.processing_params.notch_freq, t_args.fail).kind # "return"

C18_Raising == {i \in 1..Len(C18_Optional) : t_args.fail[C18_Optional[i]]}

\* The optional stages that ran: all of them, or those up to the first
\* that raises; none when the filters raise.
C18_Executed ==
    IF C18_FiltersRaise THEN <<>>
    ELSE IF C18_Raising = {} THEN C18_Optional
    ELSE SubSeq(C18_Optional, 1,
                CHOOSE i \in C18_Raising : \A j \in C18_Raising : i <= j)

C18_Final == t_ret.emitted[Len(t_ret.emitted)]

C18_Endings ==
    {i \in 1..Len(t_ret.emitted) : t_ret.emitted[i].signal \in {"result", "error"}}

C18_StageNames(row) == [i \in 1..Len(row.stages) |-> row.stages[i][1]]

\* The info signals after "start" announce the optional stages that ran.
C18_AnnouncedSignals ==
    SelectSeq(t_ret.emitted,
              LAMBDA e : /\ e.signal = "info"
                         /\ e.value \in {"detrend", "remove_dc", "remove_artifacts"})

C18_Announced ==
    [i \in 1..Len(C18_AnnouncedSignals) |-> C18_AnnouncedSignals[i].value]

C18_StageOrder ==
    C18_Ran =>
        /\ C18_Endings = {Len(t_ret.emitted)}
        /\ C18_Final.signal = "result" <=> (~C18_FiltersRaise /\ C18_Raising = {})
        /\ C18_Announced = C18_Executed
        /\ C18_Final.signal = "result" =>
               /\ Len(C18_Final.value) = Len(t_args.data)
               /\ \A i \in 1..Len(C18_Final.value) :
                      /\ C18_Final.value[i].id = t_args.data[i].id
                      /\ C18_StageNames(C18_Final.value[i]) =
                             <<"bandpass", "notch">> \o C18_Optional

\* A run over two channels with detrend off and the other two stages on.
C18_Witness ==
    /\ C18_Ran
    /\ Len(t_args.data) = 2
    /\ ~t_args.processing_params.detrend
    /\ t_args.processing_params.remove_dc
    /\ t_args.processing_params.remove_artifacts
    /\ C18_Final.signal = "result"
    /\ C18_StageNames(C18_Final.value[2]) =
           <<"bandpass", "notch", "remove_dc", "remove_artifacts">>

(***************************************************************************)
(* C16: get_data_for_plotting(window) returns the timestamps and one       *)
(* channel list of the same length; the entries are exactly the buffered   *)
(* samples whose timestamp is at least the latest buffered timestamp minus *)
(* the window, in buffer order; on an empty buffer it returns ([], [[]]).  *)
(***************************************************************************)
C16_Plotted == b_ret # NoCall /\ b_ret.call = "get_data_for_plotting"

\* The buffered samples, each timestamp with its value.
C16_Buffered ==
    [i \in 1..Len(b_buffer.timestamps) |->
        <<b_buffer.timestamps[i], b_buffer.data[i]>>]

\* Those inside the window, in buffer order.
C16_Selected ==
    SelectSeq(C16_Buffered,
              LAMBDA e : e[1] >= b_buffer.timestamps[Len(b_buffer.timestamps)]
                                     - b_ret.window_seconds)

\* The 1-based positions of the buffered samples inside the window.
C16_InWindow ==
    {i \in 1..Len(b_buffer.timestamps) :
        b_buffer.timestamps[i] >=
            b_buffer.timestamps[Len(b_buffer.timestamps)] - b_ret.window_seconds}

C16_PlottingWindow ==
    C16_Plotted =>
        /\ Len(b_ret.value) = 2
        /\ Len(b_ret.value[2]) = 1
        /\ Len(b_ret.value[2][1]) = Len(b_ret.value[1])
        /\ b_ret.value[1] = [k \in 1..Len(C16_Selected) |-> C16_Selected[k][1]]
        /\ b_ret.value[2][1] = [k \in 1..Len(C16_Selected) |-> C16_Selected[k][2]]
        /\ b_buffer.timestamps = <<>> => b_ret.value = <<<<>>, <<<<>>>>>>

\* A window that takes the first and the last buffered sample and leaves
\* one between them out.
C16_Witness ==
    /\ C16_Plotted
    /\ Len(b_buffer.timestamps) >= 3
    /\ 1 \in C16_InWindow
    /\ 2 \notin C16_InWindow
    /\ Len(b_ret.value[1]) = 2

(***************************************************************************)
(* C17: on a buffer fed samples with non-decreasing timestamps, after      *)
(* every add_batch every retained timestamp is at least the latest         *)
(* timestamp minus max_duration, the older samples and only they are       *)
(* discarded, the span from the first to the last retained timestamp is at *)
(* most max_duration, and timestamps and data have the same length.        *)
(***************************************************************************)
C17_Added == b_calls # NoCall /\ b_calls'.add_batch = b_calls.add_batch + 1

\* The timestamps before the clean-up: the buffered ones, then the batch's.
C17_Fed == b_buffer.timestamps \o BatchTimestamps(b_ret'.samples)

C17_Retained ==
    /\ Len(b_buffer'.timestamps) = Len(b_buffer'.data)
    /\ b_buffer'.timestamps # <<>> =>
           /\ \A i \in 1..Len(b_buffer'.timestamps) :
                  b_buffer'.timestamps[i] >=
                      b_buffer'.timestamps[Len(b_buffer'.timestamps)]
                          - b_cfg.max_duration
           /\ b_buffer'.timestamps[Len(b_buffer'.timestamps)]
                  - b_buffer'.timestamps[1] <= b_cfg.max_duration

C17_OnlyOldDiscarded ==
    C17_Fed # <<>> =>
        b_buffer'.timestamps =
            SelectSeq(C17_Fed,
                      LAMBDA t : t >= C17_Fed[Len(C17_Fed)] - b_cfg.max_duration)

C17_BufferSpan ==
    [][(C17_Added /\ b_cfg.ordered) => (C17_Retained /\ C17_OnlyOldDiscarded)]_vars

\* A batch of two samples in time order of which only the later one stays.
C17_Witness ==
    /\ b_cfg # NoCall
    /\ b_cfg.ordered
    /\ b_cfg.max_duration = 2
    /\ b_ret # NoCall
    /\ b_ret.call = "add_batch"
    /\ b_calls.add_batch = 2
    /\ Len(b_ret.samples) = 2
    /\ Len(b_buffer.timestamps) = 1

(***************************************************************************)
(* C19: get_general_recommendations maps the dominant rhythm and its       *)
(* relative power p to one summary: alpha with p > 0.25 gives HIGH, beta   *)
(* with p > 0.25 gives LOW, theta with p > 0.15 gives MEDIUM, delta with   *)
(* p > 0.20 gives VERY_HIGH; gamma, and a band whose p is at or below its  *)
(* threshold, give the balanced summary with level NORMAL.                 *)
(***************************************************************************)
C19_Called == r_ret # NoCall /\ r_args.call = "get_general_recommendations"

C19_Power == r_args.rhythm_analysis[r_args.dominant_rhythm].relative_power

\* Threshold in hundredths, level and summary of the bands that have a branch.
C19_Branches ==
    [alpha |-> <<25, "HIGH", "deep relaxation">>,
     beta |-> <<25, "LOW", "active wakefulness">>,
     theta |-> <<15, "MEDIUM", "meditative or drowsy">>,
     delta |-> <<20, "VERY_HIGH", "deep sleep or rest">>]

C19_BranchApplies ==
    /\ r_args.dominant_rhythm \in DOMAIN C19_Branches
    /\ C19_Power > C19_Branches[r_args.dominant_rhythm][1]

C19_GeneralMapping ==
    C19_Called =>
        /\ r_ret.kind = "return"
        /\ r_ret.value.dominant_rhythm = r_args.dominant_rhythm
        /\ r_ret.value.spectral_entropy = r_args.spectral_entropy
        /\ C19_BranchApplies =>
               /\ r_ret.value.relaxation_level = C19_Branches[r_args.dominant_rhythm][2]
               /\ r_ret.value.summary = C19_Branches[r_args.dominant_rhythm][3]
        /\ ~C19_BranchApplies =>
               /\ r_ret.value.relaxation_level = "NORMAL"
               /\ r_ret.value.summary = "balanced"

\* Theta dominant with p exactly 0.15: the balanced summary.
C19_Witness ==
    /\ C19_Called
    /\ r_args.dominant_rhythm = "theta"
    /\ C19_Power = 15
    /\ r_ret.value.relaxation_level = "NORMAL"

(***************************************************************************)
(* C20: over an analysis that holds rhythm_analysis the medical alerts     *)
(* take an absent band as relative power 0 and emit every alert whose      *)
(* condition holds, whatever the others do: delta > 0.4; beta > 0.4;       *)
(* alpha < 0.05 and beta > 0.3; theta > 0.3 and delta < 0.1; spike_count   *)
(* > 10 when spike_count is present.  The neutral message is emitted iff   *)
(* no condition holds.                                                     *)
(***************************************************************************)
C20_Called ==
    /\ m_ret # NoCall
    /\ "rhythm_analysis" \in DOMAIN m_args.analysis

C20_Power(band) ==
    IF band \in DOMAIN m_args.analysis.rhythm_analysis
       /\ "relative_power" \in DOMAIN m_args.analysis.rhythm_analysis[band]
    THEN m_args.analysis.rhythm_analysis[band].relative_power
    ELSE 0

C20_Holds(alert) ==
    CASE alert = "delta" -> C20_Power("delta") > 40
      [] alert = "beta" -> C20_Power("beta") > 40
      [] alert = "stress" -> C20_Power("alpha") < 5 /\ C20_Power("beta") > 30
      [] alert = "drowsiness" -> C20_Power("theta") > 30 /\ C20_Power("delta") < 10
      [] alert = "spikes" -> /\ "spike_count" \in DOMAIN m_args.analysis
                             /\ m_args.analysis.spike_count > 10

C20_AlertNames == {"delta", "beta", "stress", "drowsiness", "spikes"}

C20_Emitted(part) == \E i \in 1..Len(m_ret.text) : m_ret.text[i] = part

C20_Occurrences(part) ==
    Cardinality({i \in 1..Len(m_ret.text) : m_ret.text[i] = part})

C20_AlertsIndependent ==
    C20_Called =>
        /\ \A alert \in C20_AlertNames :
               /\ C20_Emitted(alert) <=> C20_Holds(alert)
               /\ C20_Occurrences(alert) <= 1
        /\ C20_Emitted("no deviations")
               <=> \A alert \in C20_AlertNames : ~C20_Holds(alert)

\* Alpha has no entry and beta is above 0.4: the beta alert and the
\* low-alpha alert are both emitted.
C20_Witness ==
    /\ C20_Called
    /\ "alpha" \notin DOMAIN m_args.analysis.rhythm_analysis
    /\ C20_Power("beta") = 41
    /\ C20_Emitted("beta")
    /\ C20_Emitted("stress")
    /\ ~C20_Emitted("no deviations")

(***************************************************************************)
(* C21: analyze_rhythms reports as dominant_rhythm a band whose relative   *)
(* power is maximal among the five bands, and of several bands tied for    *)
(* the maximum the first in the order delta, theta, alpha, beta, gamma.    *)
(***************************************************************************)
C21_Analyzed == s_ret # NoCall /\ "dominant_rhythm" \in DOMAIN s_ret

C21_Position(rhythm) == CHOOSE i \in 1..Len(BandOrder) : BandOrder[i] = rhythm

\* With total power above 0 the relative powers compare as the band powers.
C21_DominantIsFirstMaximum ==
    (C21_Analyzed /\ s_ret.total_power > 0) =>
        /\ s_ret.dominant_rhythm \in BandNames
        /\ \A rhythm \in BandNames :
               s_ret.rhythm_power[rhythm] <= s_ret.rhythm_power[s_ret.dominant_rhythm]
        /\ \A rhythm \in BandNames :
               C21_Position(rhythm) < C21_Position(s_ret.dominant_rhythm)
                   => s_ret.rhythm_power[rhythm]
                          < s_ret.rhythm_power[s_ret.dominant_rhythm]

\* Theta and beta tie for the maximum and theta is reported.
C21_Witness ==
    /\ C21_Analyzed
    /\ s_ret.rhythm_power["theta"] = s_ret.rhythm_power["beta"]
    /\ s_ret.rhythm_power["theta"] > s_ret.rhythm_power["delta"]
    /\ s_ret.rhythm_power["theta"] > 0
    /\ s_ret.dominant_rhythm = "theta"

(***************************************************************************)
(* C22: reversed inputs are treated as their swap.  For positive inputs    *)
(* with low_freq > high_freq the call returns the (low, high) of the call  *)
(* with the two exchanged, and its warnings after one 'swapped' warning;   *)
(* for positive inputs with low_freq = high_freq it goes on from the       *)
(* defaults (1.0, 40.0) after an 'invalid range' warning.                  *)
(***************************************************************************)
C22_BothCalled ==
    /\ v_first # NoCall
    /\ v_swapped # NoCall
    /\ v_args.low_freq > 0
    /\ v_args.high_freq > 0

C22_FromDefaults ==
    validate_bandpass_params(mHz(1000), mHz(40000), v_args.sampling_rate)

C22_ReversedIsSwap ==
    C22_BothCalled =>
        /\ v_args.low_freq > v_args.high_freq =>
               /\ v_first.low = v_swapped.low
               /\ v_first.high = v_swapped.high
               /\ v_first.warnings = <<W_Swapped>> \o v_swapped.warnings
        /\ v_args.low_freq = v_args.high_freq =>
               /\ v_first.low = C22_FromDefaults.low
               /\ v_first.high = C22_FromDefaults.high
               /\ v_first.warnings = <<W_InvalidRange>> \o C22_FromDefaults.warnings

\* 100 Hz and 30 Hz at a sampling rate of 100 Hz: swapped, then clamped.
C22_Witness ==
    /\ C22_BothCalled
    /\ v_args.low_freq = mHz(100000)
    /\ v_args.high_freq = mHz(30000)
    /\ v_args.sampling_rate = mHz(100000)
    /\ Len(v_first.warnings) >= 2
    /\ v_first.warnings[1] = W_Swapped

(***************************************************************************)
(* C23: every correction is reported.  Whenever the (low, high) returned   *)
(* by validate_bandpass_params differs from the input pair the warning     *)
(* list is not empty, and it holds one warning per correction step that    *)
(* fired: the warnings come in the order of the steps, none twice, the     *)
(* swap and the reset to defaults never together.                          *)
(***************************************************************************)
C23_Called == v_first # NoCall

\* The warnings in the order of the steps that append them; the swap and
\* the reset to the defaults are the two branches of one step.
C23_Step(warning) ==
    CASE warning = W_LowNonPositive -> 1
      [] warning = W_HighNonPositive -> 2
      [] warning = W_Swapped -> 3
      [] warning = W_InvalidRange -> 3
      [] warning = W_AboveNyquist -> 4
      [] warning = W_TooNarrow -> 5
      [] warning = W_LowNormSmall -> 6
      [] warning = W_HighNormLarge -> 7
      [] OTHER -> 0

C23_Changed ==
    \/ v_first.low # v_args.low_freq
    \/ v_first.high # v_args.high_freq

C23_Warned(warning) ==
    \E i \in 1..Len(v_first.warnings) : v_first.warnings[i] = warning

C23_CorrectionsReported ==
    C23_Called =>
        /\ C23_Changed => v_first.warnings # <<>>
        /\ \A i \in 1..Len(v_first.warnings) : C23_Step(v_first.warnings[i]) > 0
        /\ \A i \in 1..(Len(v_first.warnings) - 1) :
               C23_Step(v_first.warnings[i]) < C23_Step(v_first.warnings[i + 1])
        /\ C23_Warned(W_LowNonPositive) <=> v_args.low_freq <= 0
        /\ C23_Warned(W_HighNonPositive) <=> v_args.high_freq <= 0

\* 1 Hz to 200 Hz at 250 Hz: only the Nyquist clamp fires, with its warning.
C23_Witness ==
    /\ C23_Called
    /\ v_args.low_freq = mHz(1000)
    /\ v_args.high_freq = mHz(200000)
    /\ v_args.sampling_rate = mHz(250000)
    /\ v_first.high # v_args.high_freq
    /\ v_first.warnings = <<W_AboveNyquist>>

(***************************************************************************)
(* C26: valid parameters are left untouched.  If the inputs satisfy        *)
(* low_freq > 0, high_freq - low_freq >= 0.5, low_freq >= 0.001 * nyquist  *)
(* and high_freq <= 0.999 * nyquist with high_freq < nyquist, then         *)
(* validate_bandpass_params returns exactly (low_freq, high_freq) and an   *)
(* empty warning list.                                                     *)
(***************************************************************************)
C26_Nyquist == v_args.sampling_rate \div 2

C26_Valid ==
    /\ v_args.low_freq > 0
    /\ v_args.high_freq - v_args.low_freq >= mHz(500)
    /\ v_args.low_freq * 1000 >= C26_Nyquist
    /\ v_args.high_freq * 1000 <= 999 * C26_Nyquist
    /\ v_args.high_freq < C26_Nyquist

C26_ValidUntouched ==
    (v_first # NoCall /\ C26_Valid) =>
        /\ v_first.low = v_args.low_freq
        /\ v_first.high = v_args.high_freq
        /\ v_first.warnings = <<>>

(***************************************************************************)
(* C24: for any notch_freq validate_notch_params returns a frequency f     *)
(* with 0.001 * nyquist <= f <= 0.999 * nyquist, a non-positive input      *)
(* being replaced by 50.0 Hz before the Nyquist check, and validating its  *)
(* own output again returns the same f with no warnings.                   *)
(***************************************************************************)
C24_Nyquist == n_args.sampling_rate \div 2

C24_InRange ==
    /\ n_first.notch * 1000 >= C24_Nyquist
    /\ n_first.notch * 1000 <= 999 * C24_Nyquist

\* 50 Hz taken through the Nyquist check and the normalisation alone.
C24_FromDefault == validate_notch_params(mHz(50000), n_args.sampling_rate)

C24_NotchRange ==
    n_first # NoCall =>
        /\ C24_InRange
        /\ n_args.notch_freq <= 0 =>
               /\ n_first.notch = C24_FromDefault.notch
               /\ n_first.warnings = <<W_NotchNonPositive>> \o C24_FromDefault.warnings

C24_NotchSafeAndStable ==
    /\ C24_NotchRange
    /\ n_second # NoCall =>
           /\ n_second.notch = n_first.notch
           /\ n_second.warnings = <<>>

(***************************************************************************)
(* C25: under any interleaving of producer and consumer every batch the    *)
(* acquisition loop enqueues holds exactly batch_size samples, consecutive *)
(* in the order the driver produced them, and no sample is in two enqueued *)
(* batches.                                                                *)
(***************************************************************************)
\* The batches enqueued so far: still queued, delivered, or dropped.
C25_Enqueued == k_queue \o k_delivered \o k_dropped

C25_Consecutive(batch) ==
    \A i \in 1..(Len(batch) - 1) : batch[i + 1] = batch[i] + 1

C25_Samples(batch) == {batch[i] : i \in 1..Len(batch)}

C25_FixedSizeBatches ==
    k_cfg # NoCall =>
        /\ \A i \in 1..Len(C25_Enqueued) :
               /\ Len(C25_Enqueued[i]) = k_cfg.batch_size
               /\ C25_Consecutive(C25_Enqueued[i])
        /\ \A i, j \in 1..Len(C25_Enqueued) :
               i # j => C25_Samples(C25_Enqueued[i]) \cap C25_Samples(C25_Enqueued[j]) = {}

\* The part that holds on every interleaving: at least batch_size samples,
\* consecutive, and no sample in two enqueued batches.
C25_ConsecutiveDisjoint ==
    k_cfg # NoCall =>
        /\ \A i \in 1..Len(C25_Enqueued) :
               /\ Len(C25_Enqueued[i]) >= k_cfg.batch_size
               /\ C25_Consecutive(C25_Enqueued[i])
        /\ \A i, j \in 1..Len(C25_Enqueued) :
               i # j => C25_Samples(C25_Enqueued[i]) \cap C25_Samples(C25_Enqueued[j]) = {}

(***************************************************************************)
(* C27: after any sequence of add_batch calls since the last clear, every  *)
(* value stored in the buffer's data lies between the global_min and       *)
(* global_max reported by get_extrema, for every batch content, samples    *)
(* without amplitudes included.                                            *)
(***************************************************************************)
C27_Between(value, extrema) ==
    /\ ~FractionLess(value, extrema[1])
    /\ ~FractionLess(extrema[2], value)

C27_DataWithinExtrema ==
    b_cfg # NoCall =>
        \A i \in 1..Len(b_buffer.data) :
            C27_Between(b_buffer.data[i], get_extrema(b_buffer))

\* The part that holds: the values stored from an amplitude.  No reading of
\* the model is 0, so <<0, 1>> is the value of a sample without amplitudes.
C27_ReadingsWithinExtrema ==
    b_cfg # NoCall =>
        \A i \in 1..Len(b_buffer.data) :
            b_buffer.data[i] # <<0, 1>>
                => C27_Between(b_buffer.data[i], get_extrema(b_buffer))

(***************************************************************************)
(* C28: whenever processed_data is not None it is the preprocessing result *)
(* of the current raw_data: loading, generating or adopting new raw data   *)
(* resets processed_data and current_analysis to None, and under any       *)
(* interleaving of user actions and worker completions a processing run    *)
(* started on earlier raw data cannot afterwards overwrite processed_data. *)
(***************************************************************************)
\* The array a processing run of data emits with its result signal.
C28_Result(data, params, fail) ==
    SelectSeq(ProcessingRun(data, AppSamplingRate, params, fail),
              LAMBDA e : e.signal = "result")

C28_ResultOfCurrent ==
    /\ p_raw_data # NoneValue
    /\ \E params \in ProcessingParamChoices : \E fail \in AppFailureChoices :
           /\ C28_Result(p_raw_data.rows, params, fail) # <<>>
           /\ C28_Result(p_raw_data.rows, params, fail)[1].value
                  = p_processed_data.rows

C28_ProcessedIsOfCurrentRaw ==
    (p_runs # NoCall /\ p_processed_data # NoneValue) => C28_ResultOfCurrent

\* The part that holds: new raw data reset both results.
C28_NewRawData ==
    /\ p_runs # NoCall
    /\ p_raw_data' # p_raw_data

C28_NewRawDataResets ==
    [][C28_NewRawData
           => p_processed_data' = NoneValue /\ p_current_analysis' = NoneValue]_vars

(***************************************************************************)
(* C29: whenever start() returns without emitting error_occurred the       *)
(* controller is running: the running flag is set, exactly one producer    *)
(* thread is alive and the queue timer is active, for every call order, a  *)
(* start() right after a stop() whose join timed out included.             *)
(***************************************************************************)
C29_StartReturns ==
    /\ k_cfg # NoCall
    /\ k_calls'.start = k_calls.start + 1
    /\ k_errors' = k_errors

C29_Running == k_running /\ k_thread = "alive" /\ k_timer

C29_StartLeavesRunning == [][C29_StartReturns => C29_Running']_vars

\* The part that holds: a start() that finds no live thread.
C29_StartFromRest ==
    [][C29_StartReturns /\ k_thread # "alive" => C29_Running']_vars

(***************************************************************************)
(* C30: whenever the acquisition loop terminates, because the running flag *)
(* was cleared, the sample stream ended, or driver.open() or the sample    *)
(* iteration raised, driver.close() is called exactly once for that run,   *)
(* and an exception is reported through error_occurred instead of leaving  *)
(* the producer thread.                                                    *)
(***************************************************************************)
\* The runs of the acquisition loop started so far.
C30_Runs == Len(SelectSeq(k_status, LAMBDA e : e = "started"))

C30_ClosedOncePerRun ==
    k_cfg # NoCall =>
        /\ k_pc = "done" => k_closes = C30_Runs
        /\ k_pc \notin {"none", "done"} => k_closes = C30_Runs - 1

\* A step of the producer in which open(), the iteration or the loop body
\* raises.
C30_Raises ==
    /\ k_cfg # NoCall
    /\ k_pc' # k_pc
    /\ \/ k_pc = "open" /\ k_cfg.open_fails
       \/ k_pc = "next" /\ k_cfg.iter_fails
       \/ k_pc = "full_put" /\ QueueFull(k_queue)

C30_Reported ==
    /\ k_errors' = k_errors + 1
    /\ k_pc' = "close"
    /\ k_thread' = "alive"

C30_CloseOnceAndReport ==
    /\ [](C30_ClosedOncePerRun)
    /\ [][C30_Raises => C30_Reported]_vars

\* Two runs of a driver whose iteration raises have ended: two errors were
\* reported and the driver was closed twice.
C30_Witness ==
    /\ k_cfg # NoCall
    /\ k_cfg.iter_fails
    /\ k_pc = "done"
    /\ C30_Runs = 2
    /\ k_errors = 2
    /\ k_closes = 2

====
